---------------------------- MODULE Spec2Model ----------------------------
(***************************************************************************)
(* A model of the AI-builder detector: the detection pipeline detectUrl    *)
(* (functions/_detector.ts), its two callers (the single-URL endpoint and  *)
(* the batch endpoint's per-row callback), and the pure scoring functions. *)
(*                                                                         *)
(* Text.  A string that the code only scans with regular expressions is    *)
(* modelled as a sequence of tokens, each token a concrete piece of text:  *)
(* an HTML document is a sequence of fragments, a URL is a sequence        *)
(* <<scheme, host>> with optional blanks around it.  RE_TABLE holds the    *)
(* result of every regular expression of the source on every token         *)
(* (number of occurrences, length of the first match); a pattern matches   *)
(* a text when it matches one of its tokens (no pattern of the source      *)
(* matches across two fragments of the vocabulary).  A string value that   *)
(* is stored in a result is a record [text, len]: the token its            *)
(* characters come from and how many of them are kept.                     *)
(*                                                                         *)
(* The HTML fragments of the vocabulary:                                   *)
(*   p_hello                    <p>Hello</p>                               *)
(*   meta_generator_webflow     <meta name="generator" content="Webflow">  *)
(*   comment_built_with_framer  <!-- Built with Framer -->                 *)
(*   comment_created_in_webflow <!-- This site was created in Webflow -->  *)
(*   div_site_container         <div id="SITE_CONTAINER"></div>            *)
(*   div_sqs_block              <div class="sqs-block"></div>              *)
(*   comment_built_with_cursor  <!-- built with Cursor -->                 *)
(*   meta_cursor_ai             <meta name="generator" content="Cursor AI"> *)
(*   script_framer_cdn          <script src="https://framerusercontent.com *)
(*                              /sites/app.js"></script>                   *)
(*   script_vite_bundle         <script type="module" crossorigin          *)
(*                              src="/assets/index-a1b2c3d4.js"></script>  *)
(*   div_root                   <div id="root"></div>                      *)
(*   meta_generator_durable     <meta name="generator"                     *)
(*                              content="Durable.co">                      *)
(*   comments_nav_hero          <!-- Navigation --><!-- Hero section -->   *)
(*   ai_landing_section         a section with an Inter font link, three   *)
(*                              shadcn/ui class strings, Tailwind classes, *)
(*                              a lucide icon and three placeholder links  *)
(* and of the script bundle:                                               *)
(*   js_minified                var a=1;function b(c){return c+a}          *)
(*   js_radix_lucide            imports of @radix-ui/react-slot and        *)
(*                              lucide-react                               *)
(*   js_tutorial_comments       five "// This function ..."-style comments *)
(*   js_filler_300kb            300000 bytes matching nothing              *)
(* A URL whose scheme is written HTTP:// is the token sequence             *)
(* <<"HTTP://", host>>; with https:// before it, a URL parser reads the    *)
(* host "http" and the path //host.  The header value pepyaka_long_banner  *)
(* is a Server header of 142 characters, "Pepyaka/1.19.10 build-" followed *)
(* by 120 digits.                                                          *)
(***************************************************************************)
EXTENDS Integers, Sequences, FiniteSets, TLC

VARIABLES
  caller, row,            \* which endpoint called detectUrl, and the batch row
  pc,                     \* where the detection stands
  rawUrl, url,            \* detectUrl's argument and the URL it fetches
  html, responseHeaders, finalUrl, fetchError,   \* detectUrl's locals
  responseStatus,         \* the status code of the primary response
  caught,                 \* the values the primary try block threw
  adjunctCaught,          \* the values the bundle's try block threw
  issued,                 \* the fetches issued, in order
  timer, adjunctTimer,    \* the two abort timers
  allPlatformScores, allPlatformSignalsMap,
  bestPlatform, bestPlatformScore,
  jsSource, aiSignals, aiScore,
  ran,                    \* the detectors that ran
  returned,               \* the results handed back to the caller
  sigList, total,         \* a signal list and its score
  labelScore, labelMin, label,  \* a score, a threshold and the label
  scoreTable, verdict,    \* a table of platform scores and the decision on it
  heurInput, heurSignals, heurScore,  \* artifacts, their AI signals and score
  batchRows,              \* the rows of a batch request
  det,                    \* for each row, the locals of its detectUrl call
  fetched,                \* for each row, what its fetches delivered so far
  results,                \* for each row, the value its promise settled with
  batchStatus,            \* the status of the batch response, 0 while pending
  lastIndex,              \* lastIndex of the module's g-flagged pattern objects
  allRows, chunks,        \* the frontend: rows of the CSV, chunks left to upload
  requestRows, answer,    \* the batch endpoint: rows of the request, its status
  started, inFlight       \* detections started for the request, and pending

pipelineVars ==
  << caller, row, pc, rawUrl, url, html, responseHeaders, finalUrl, fetchError,
     responseStatus, caught, adjunctCaught, issued, timer, adjunctTimer, allPlatformScores, allPlatformSignalsMap,
     bestPlatform, bestPlatformScore, jsSource, aiSignals, aiScore, ran,
     returned >>

scoreVars == << sigList, total >>

labelVars == << labelScore, labelMin, label >>

bestVars == << scoreTable, verdict >>

heurVars == << heurInput, heurSignals, heurScore >>

batchVars == << batchRows, det, fetched, results, batchStatus, lastIndex >>

fanVars == << allRows, chunks, requestRows, answer, started, inFlight >>

vars == << pipelineVars, scoreVars, labelVars, bestVars, heurVars, batchVars, fanVars >>

(***************************************************************************)
(* The fingerprint table and the pattern constants, as in the source.      *)
(***************************************************************************)
FINGERPRINTS ==
  "Framer" :> [
    hostname |-> <<
      <<"\\.framer\\.website$", "high", "Framer subdomain (.framer.website)">>,
      <<"\\.framer\\.app$", "high", "Framer subdomain (.framer.app)">>,
      <<"\\.framer\\.ai$", "high", "Framer subdomain (.framer.ai)">>
    >>,
    http_header |-> <<
      <<"^Framer/", "high", "Framer Server header">>,
      <<"^framer$", "high", "Framer Server header (lowercase)">>
    >>,
    meta_tag |-> <<
      <<"<meta[^>]+name=[\"']generator[\"'][^>]+content=[\"']Framer", "high", "Framer generator meta tag">>,
      <<"<meta[^>]+content=[\"']Framer[^\"']*[\"'][^>]+name=[\"']generator[\"']", "high", "Framer generator meta tag (reversed)">>
    >>,
    html_comment |-> <<
      <<"Built with Framer", "high", "Framer build comment">>,
      <<"framer\\.com", "medium", "Framer URL in HTML comment">>
    >>,
    data_attribute |-> <<
      <<"data-framer-component-type", "high", "Framer component attribute">>,
      <<"data-framer-stack-", "high", "Framer stack layout attribute">>,
      <<"data-framer-appear-id", "high", "Framer appear animation attribute">>,
      <<"data-framer-name", "medium", "Framer name attribute">>
    >>,
    css_class |-> <<
      <<"\\bframer-[a-zA-Z0-9]{4,10}\\b", "medium", "Framer generated CSS class">>
    >>,
    css_variable |-> <<
      <<"--framer-font-family", "high", "Framer CSS font variable">>,
      <<"--framer-text-color", "high", "Framer CSS text color variable">>,
      <<"--framer-link-", "high", "Framer CSS link variable">>
    >>,
    dom_id |-> <<
      <<"id=[\"']__framer-badge-container[\"']", "high", "Framer badge (free tier)">>
    >>,
    script_src |-> <<
      <<"framerusercontent\\.com", "high", "Framer CDN (framerusercontent.com)">>,
      <<"framerstatic\\.com", "high", "Framer static CDN">>,
      <<"events\\.framer\\.com", "high", "Framer analytics endpoint">>
    >>,
    link_href |-> <<
      <<"framerusercontent\\.com", "high", "Framer CDN in stylesheet">>
    >>
  ]
  @@ "Webflow" :> [
    hostname |-> <<
      <<"\\.webflow\\.io$", "high", "Webflow subdomain (.webflow.io)">>
    >>,
    html_comment |-> <<
      <<"This site was created in Webflow", "high", "Webflow build comment">>,
      <<"webflow\\.com", "medium", "Webflow URL in HTML comment">>
    >>,
    meta_tag |-> <<
      <<"<meta[^>]+content=[\"']Webflow[\"'][^>]+name=[\"']generator[\"']", "high", "Webflow generator meta tag">>,
      <<"<meta[^>]+name=[\"']generator[\"'][^>]+content=[\"']Webflow[\"']", "high", "Webflow generator meta tag (reversed)">>
    >>,
    data_attribute |-> <<
      <<"data-wf-domain", "high", "Webflow domain attribute">>,
      <<"data-wf-page", "high", "Webflow page ID attribute">>,
      <<"data-wf-site", "high", "Webflow site ID attribute">>,
      <<"data-wf-experiences", "high", "Webflow experiences attribute">>,
      <<"data-wf--button--variant", "high", "Webflow button component attribute">>,
      <<"data-wf--nav--variant", "high", "Webflow nav component attribute">>
    >>,
    css_class |-> <<
      <<"\\bw-mod-js\\b", "high", "Webflow w-mod-js class">>,
      <<"\\bw-richtext\\b", "high", "Webflow rich text class">>,
      <<"\\bw-embed\\b", "high", "Webflow embed class">>,
      <<"\\bw-dyn-list\\b", "high", "Webflow dynamic list class">>,
      <<"\\bw-dyn-item\\b", "high", "Webflow dynamic item class">>,
      <<"\\bw-nav\\b", "high", "Webflow nav class">>,
      <<"\\bw-container\\b", "medium", "Webflow container class">>
    >>,
    css_variable |-> <<
      <<"--_color---primary--webflow-blue", "high", "Webflow brand CSS variable">>,
      <<"--wst-button-", "high", "Webflow style token button variable">>
    >>,
    js_global |-> <<
      <<"window\\.wf\\b", "high", "Webflow JS global (window.wf)">>,
      <<"window\\.webflowHost", "high", "Webflow JS host global">>,
      <<"Webflow\\.push", "high", "Webflow.push() JS call">>
    >>,
    script_src |-> <<
      <<"cdn\\.prod\\.website-files\\.com", "high", "Webflow production CDN">>,
      <<"d3e54v103j8qbb\\.cloudfront\\.net", "high", "Webflow CloudFront CDN">>
    >>,
    link_href |-> <<
      <<"cdn\\.prod\\.website-files\\.com", "high", "Webflow CDN stylesheet">>,
      <<"\\.webflow\\.[a-f0-9]+-[a-f0-9]+\\.min\\.css", "high", "Webflow generated CSS filename">>
    >>
  ]
  @@ "Bolt" :> [
    hostname |-> <<
      <<"\\.bolt\\.new$", "high", "Bolt preview subdomain (.bolt.new)">>,
      <<"\\.stackblitz\\.io$", "high", "StackBlitz preview (Bolt host)">>
    >>,
    meta_tag |-> <<
      <<"<meta[^>]+name=[\"']bolt-version[\"']", "high", "Bolt version meta tag">>
    >>,
    html_comment |-> <<
      <<"bolt\\.new", "high", "bolt.new URL in HTML comment">>,
      <<"<!--remix-island-start-->", "medium", "Remix island comment (Bolt uses Remix)">>
    >>,
    css_variable |-> <<
      <<"--bolt-elements-", "high", "Bolt CSS element variable">>,
      <<"--bolt-ds-", "high", "Bolt design system CSS variable">>
    >>,
    js_global |-> <<
      <<"window\\.__allowDOMMutations", "high", "Bolt JS global (__allowDOMMutations)">>,
      <<"window\\.__loadingPrompt", "high", "Bolt JS global (__loadingPrompt)">>,
      <<"\"bolt_theme\"", "medium", "Bolt theme localStorage key">>
    >>
  ]
  @@ "v0 (Vercel)" :> [
    hostname |-> <<
      <<"\\.v0\\.dev$", "high", "v0 subdomain (.v0.dev)">>,
      <<"\\.v0\\.app$", "high", "v0 subdomain (.v0.app)">>,
      <<"\\.vusercontent\\.net$", "high", "v0 vusercontent preview subdomain">>
    >>,
    data_attribute |-> <<
      <<"data-dpl-id=[\"']dpl_[a-zA-Z0-9]+[\"']", "high", "v0/Vercel deployment ID attribute">>
    >>,
    script_src |-> <<
      <<"/chat-static/_next/static/", "high", "v0 Next.js static bundle path">>,
      <<"blobs\\.vusercontent\\.net", "high", "v0 blob storage CDN">>,
      <<"generated\\.vusercontent\\.net", "high", "v0 generated asset CDN">>
    >>,
    link_href |-> <<
      <<"/chat-static/_next/static/", "high", "v0 Next.js static CSS path">>,
      <<"vusercontent\\.net", "high", "v0 CDN in stylesheet">>
    >>,
    css_class |-> <<
      <<"\\bgeist\\b", "medium", "Geist font class (Vercel/v0 proprietary)">>
    >>
  ]
  @@ "Wix" :> [
    hostname |-> <<
      <<"\\.wix\\.com$", "high", "Wix subdomain (.wix.com)">>,
      <<"\\.wixsite\\.com$", "high", "Wix subdomain (.wixsite.com)">>
    >>,
    meta_tag |-> <<
      <<"<meta[^>]+name=[\"']generator[\"'][^>]+content=[\"']Wix\\.com", "high", "Wix generator meta tag">>,
      <<"<meta[^>]+content=[\"']Wix\\.com[^\"']*[\"'][^>]+name=[\"']generator[\"']", "high", "Wix generator meta tag (reversed)">>
    >>,
    dom_id |-> <<
      <<"id=[\"']SITE_CONTAINER[\"']", "high", "Wix SITE_CONTAINER element">>,
      <<"id=[\"']SITE_HEADER[\"']", "high", "Wix SITE_HEADER element">>,
      <<"id=[\"']SITE_FOOTER[\"']", "high", "Wix SITE_FOOTER element">>,
      <<"id=[\"']WIX_ADS[\"']", "high", "Wix ads element (free tier)">>,
      <<"id=[\"']masterPage[\"']", "high", "Wix masterPage element">>
    >>,
    script_content |-> <<
      <<"wix-thunderbolt", "high", "Wix Thunderbolt renderer reference">>,
      <<"\"applicationId\"\\s*:\\s*\"wix-", "high", "Wix application ID in JSON">>
    >>,
    css_variable |-> <<
      <<"--color_\\d+\\s*:", "medium", "Wix numbered color CSS variable">>,
      <<"--font_\\d+\\s*:", "medium", "Wix numbered font CSS variable">>,
      <<"--wix-ads-height", "high", "Wix ads height CSS variable">>
    >>,
    script_src |-> <<
      <<"static\\.parastorage\\.com", "high", "Wix parastorage CDN">>,
      <<"static\\.wixstatic\\.com", "high", "Wix static CDN">>,
      <<"siteassets\\.parastorage\\.com", "high", "Wix site assets CDN">>
    >>,
    link_href |-> <<
      <<"static\\.parastorage\\.com", "high", "Wix parastorage CDN stylesheet">>,
      <<"static\\.wixstatic\\.com", "high", "Wix static CDN stylesheet">>
    >>
  ]
  @@ "Lovable" :> [
    hostname |-> <<
      <<"\\.lovable\\.app$", "high", "Lovable preview subdomain (.lovable.app)">>,
      <<"\\.gptengineer\\.app$", "high", "Lovable legacy subdomain (.gptengineer.app)">>
    >>,
    meta_tag |-> <<
      <<"<meta[^>]+name=[\"']generator[\"'][^>]+content=[\"']Lovable", "high", "Lovable generator meta tag">>
    >>,
    dom_id |-> <<
      <<"id=[\"']lovable-badge[\"']", "high", "Lovable badge (free tier)">>
    >>,
    html_comment |-> <<
      <<"[Ll]ovable", "medium", "Lovable mention in HTML comment">>
    >>,
    js_global |-> <<
      <<"window\\.__lovable", "high", "Lovable JS global">>
    >>,
    script_src |-> <<
      <<"/lovable-uploads/[0-9a-f]{8}-[0-9a-f]{4}-[0-9a-f]{4}-[0-9a-f]{4}-[0-9a-f]{12}\\.[a-z]+", "high", "Lovable UUID uploads asset">>
    >>,
    img_src |-> <<
      <<"/lovable-uploads/[0-9a-f]{8}-[0-9a-f]{4}-[0-9a-f]{4}-[0-9a-f]{4}-[0-9a-f]{12}\\.[a-z]+", "high", "Lovable UUID uploads image">>
    >>
  ]
  @@ "Squarespace" :> [
    hostname |-> <<
      <<"\\.squarespace\\.com$", "high", "Squarespace subdomain (.squarespace.com)">>
    >>,
    http_header |-> <<
      <<"Squarespace", "high", "Squarespace server header">>
    >>,
    meta_tag |-> <<
      <<"<meta[^>]+name=[\"']generator[\"'][^>]+content=[\"']Squarespace", "high", "Squarespace generator meta tag">>,
      <<"<meta[^>]+content=[\"']Squarespace[^\"']*[\"'][^>]+name=[\"']generator[\"']", "high", "Squarespace generator meta tag (reversed)">>
    >>,
    html_comment |-> <<
      <<"Squarespace", "medium", "Squarespace mention in HTML comment">>
    >>,
    js_global |-> <<
      <<"window\\.SQUARESPACE_ROLLUPS", "high", "Squarespace JS rollups global">>,
      <<"Static\\.SQUARESPACE_CONTEXT", "high", "Squarespace context global">>,
      <<"Y\\.Squarespace", "high", "Squarespace YUI namespace">>
    >>,
    css_class |-> <<
      <<"\\bsqs-block\\b", "high", "Squarespace block CSS class">>,
      <<"\\bsqs-layout\\b", "high", "Squarespace layout CSS class">>,
      <<"\\bsqs-col-wrapper\\b", "high", "Squarespace col wrapper CSS class">>
    >>,
    script_src |-> <<
      <<"static\\d*\\.squarespace\\.com", "high", "Squarespace static CDN">>,
      <<"squarespace\\.com/universal/scripts", "high", "Squarespace universal scripts">>
    >>,
    link_href |-> <<
      <<"static\\d*\\.squarespace\\.com", "high", "Squarespace CDN stylesheet">>
    >>
  ]
  @@ "GitHub Pages" :> [
    hostname |-> <<
      <<"\\.github\\.io$", "high", "GitHub Pages subdomain (.github.io)">>
    >>,
    http_header |-> <<
      <<"GitHub\\.com", "high", "GitHub.com server header">>
    >>,
    html_comment |-> <<
      <<"[Gg]it[Hh]ub\\s*[Cc]opilot|[Cc]opilot\\s*[Ww]orkspace", "low", "GitHub Copilot mention in HTML comment">>
    >>
  ]
  @@ "Cursor AI" :> [
    html_comment |-> <<
      <<"[Cc]ursor\\s*[Aa][Ii]|built\\s+with\\s+[Cc]ursor", "low", "Cursor AI mention in HTML comment">>
    >>,
    meta_tag |-> <<
      <<"<meta[^>]+content=[\"'][Cc]ursor\\s*[Aa][Ii][\"']", "low", "Cursor AI meta tag">>
    >>
  ]

PlatformOrder ==
  << "Framer", "Webflow", "Bolt", "v0 (Vercel)", "Wix", "Lovable", "Squarespace", "GitHub Pages", "Cursor AI" >>

OVER_COMMENTER_PATTERNS ==
  << "\\/\\/\\s*(This function|Here we|Loop through|Initialize the|Check if|This will|We need to|Now we|First we|Get the|Set the|Add the|Create the|Update the|Handle the|This is (a|the)|This component|This page|This renders|The following)",
     "\\/\\*\\s*(This function|Initialize|Loop|Handle|Create|Update|Get|Set|Add)\\b",
     "<!--\\s*(This section|This is the|Navigation|Header section|Footer section|Main content|Hero section|This div|Wrapper for|Container for)" >>

SHADCN_PATTERNS ==
  << "rounded-lg border bg-card text-card-foreground shadow",
     "inline-flex items-center justify-center (gap-2 )?whitespace-nowrap rounded-md text-sm font-medium",
     "inline-flex items-center rounded-full border px-2\\.5 py-0\\.5 text-xs font-semibold",
     "flex h-(?:9|10) w-full rounded-md border border-input bg-background px-3 py-[12]",
     "fixed inset-0 z-50 bg-black\\/80",
     "fixed inset-y-0 z-50 flex (h-full )?flex-col",
     "function cn\\([^)]*\\)\\s*\\{[\\s\\S]{0,100}clsx|twMerge",
     "@radix-ui\\/" >>

TAILWIND_PATTERNS ==
  << "class(?:Name)?=\"[^\"]*(?:flex|grid)[^\"]*(?:items-center|justify-between)[^\"]*(?:gap-|space-)[^\"]*\"",
     "class(?:Name)?=\"[^\"]*(?:sm:|md:|lg:|xl:|dark:){3,}[^\"]*\"",
     "(?:bg|text|border)-(?:slate|gray|zinc|neutral|stone|blue|indigo|violet|purple)-(?:50|100|200|300|400|500|600|700|800|900|950)" >>

VITE_PATTERNS ==
  << "\\/assets\\/index-[A-Za-z0-9_-]{6,12}\\.js",
     "\\/assets\\/index-[A-Za-z0-9_-]{6,12}\\.css" >>

REACT_SPA_PATTERNS ==
  << "<div id=\"root\">\\s*<\\/div>",
     "<div id=\"app\">\\s*<\\/div>" >>

LUCIDE_PATTERNS ==
  << "lucide[-_]react",
     "lucide",
     "M\\s*12\\s+2[Cc]\\s*6\\.477\\s+2",
     "M\\s*3\\s+12[Hh]\\s*21" >>

PLACEHOLDER_LINK_PATTERNS ==
  << "href=[\"']https?:\\/\\/(?:www\\.)?example\\.com[\"']",
     "href=[\"']https?:\\/\\/(?:www\\.)?yourdomain\\.com[\"']",
     "href=[\"']https?:\\/\\/(?:www\\.)?placeholder\\.com[\"']",
     "action=[\"']\\/api\\/your[-_]endpoint[\"']",
     "[\"']https?:\\/\\/api\\.example\\.com\\/",
     "href=[\"']mailto:you@example\\.com[\"']",
     "href=[\"']mailto:email@yourdomain\\.com[\"']",
     "href=[\"']mailto:info@yourcompany\\.com[\"']" >>

GENERIC_NAMING_PATTERNS ==
  << "class(?:Name)?=\"[^\"]*\\b(?:container|wrapper|section|block|div|col|row|item|card|box|panel|element|component)-\\d+\\b",
     "id=\"[^\"]*\\b(?:container|wrapper|section|block|div)-\\d+\\b",
     "\\bdata-(?:block|wrapper|element|component)=\"\\d*\"" >>

PROTOTYPE_HOSTING_HOSTNAMES ==
  << "\\.vercel\\.app$",
     "\\.netlify\\.app$",
     "\\.pages\\.dev$",
     "\\.onrender\\.com$",
     "\\.fly\\.dev$",
     "\\.railway\\.app$",
     "\\.up\\.railway\\.app$",
     "\\.glitch\\.me$",
     "\\.stackblitz\\.io$",
     "\\.codesandbox\\.io$" >>

AI_GENERATOR_META_PATTERNS ==
  << "<meta[^>]+name=[\"']generator[\"'][^>]+content=[\"'][^\"']*(?:Hostinger\\s*AI|AI\\s*Website|Durable\\.co|10Web|Jimdo\\s*AI|GoDaddy\\s*AI|Wix\\s*ADI|Zyro)[^\"']*[\"']",
     "<meta[^>]+content=[\"'][^\"']*(?:Hostinger\\s*AI|AI\\s*Website|Durable\\.co|10Web|Jimdo\\s*AI|GoDaddy\\s*AI|Wix\\s*ADI|Zyro)[^\"']*[\"'][^>]+name=[\"']generator[\"']" >>

RE_TABLE ==
  <<"Built with Framer", "comment_built_with_framer">> :> [n |-> 1, len |-> 17]
  @@ <<"framerusercontent\\.com", "script_framer_cdn">> :> [n |-> 1, len |-> 21]
  @@ <<"framerusercontent\\.com", "https://framerusercontent.com/sites/app.js">> :> [n |-> 1, len |-> 21]
  @@ <<"\\.webflow\\.io$", "shop.webflow.io">> :> [n |-> 1, len |-> 11]
  @@ <<"This site was created in Webflow", "comment_created_in_webflow">> :> [n |-> 1, len |-> 32]
  @@ <<"<meta[^>]+name=[\"']generator[\"'][^>]+content=[\"']Webflow[\"']", "meta_generator_webflow">> :> [n |-> 1, len |-> 40]
  @@ <<"\\.stackblitz\\.io$", "demo.stackblitz.io">> :> [n |-> 1, len |-> 14]
  @@ <<"id=[\"']SITE_CONTAINER[\"']", "div_site_container">> :> [n |-> 1, len |-> 19]
  @@ <<"Squarespace", "Squarespace">> :> [n |-> 1, len |-> 11]
  @@ <<"\\bsqs-block\\b", "div_sqs_block">> :> [n |-> 1, len |-> 9]
  @@ <<"GitHub\\.com", "GitHub.com">> :> [n |-> 1, len |-> 10]
  @@ <<"[Cc]ursor\\s*[Aa][Ii]|built\\s+with\\s+[Cc]ursor", "comment_built_with_cursor">> :> [n |-> 1, len |-> 17]
  @@ <<"[Cc]ursor\\s*[Aa][Ii]|built\\s+with\\s+[Cc]ursor", "meta_cursor_ai">> :> [n |-> 1, len |-> 9]
  @@ <<"<meta[^>]+content=[\"'][Cc]ursor\\s*[Aa][Ii][\"']", "meta_cursor_ai">> :> [n |-> 1, len |-> 42]
  @@ <<"\\/\\/\\s*(This function|Here we|Loop through|Initialize the|Check if|This will|We need to|Now we|First we|Get the|Set the|Add the|Create the|Update the|Handle the|This is (a|the)|This component|This page|This renders|The following)", "js_tutorial_comments">> :> [n |-> 5, len |-> 16]
  @@ <<"<!--\\s*(This section|This is the|Navigation|Header section|Footer section|Main content|Hero section|This div|Wrapper for|Container for)", "comments_nav_hero">> :> [n |-> 2, len |-> 15]
  @@ <<"<!--\\s*(This section|This is the|Navigation|Header section|Footer section|Main content|Hero section|This div|Wrapper for|Container for)", "ai_full_page">> :> [n |-> 5, len |-> 15]
  @@ <<"rounded-lg border bg-card text-card-foreground shadow", "ai_landing_section">> :> [n |-> 1, len |-> 53]
  @@ <<"rounded-lg border bg-card text-card-foreground shadow", "ai_full_page">> :> [n |-> 1, len |-> 53]
  @@ <<"inline-flex items-center justify-center (gap-2 )?whitespace-nowrap rounded-md text-sm font-medium", "ai_landing_section">> :> [n |-> 1, len |-> 88]
  @@ <<"inline-flex items-center justify-center (gap-2 )?whitespace-nowrap rounded-md text-sm font-medium", "ai_full_page">> :> [n |-> 1, len |-> 88]
  @@ <<"inline-flex items-center rounded-full border px-2\\.5 py-0\\.5 text-xs font-semibold", "ai_landing_section">> :> [n |-> 1, len |-> 80]
  @@ <<"inline-flex items-center rounded-full border px-2\\.5 py-0\\.5 text-xs font-semibold", "ai_full_page">> :> [n |-> 1, len |-> 80]
  @@ <<"@radix-ui\\/", "js_radix_lucide">> :> [n |-> 1, len |-> 10]
  @@ <<"class(?:Name)?=\"[^\"]*(?:flex|grid)[^\"]*(?:items-center|justify-between)[^\"]*(?:gap-|space-)[^\"]*\"", "ai_landing_section">> :> [n |-> 2, len |-> 60]
  @@ <<"class(?:Name)?=\"[^\"]*(?:flex|grid)[^\"]*(?:items-center|justify-between)[^\"]*(?:gap-|space-)[^\"]*\"", "ai_full_page">> :> [n |-> 2, len |-> 60]
  @@ <<"(?:bg|text|border)-(?:slate|gray|zinc|neutral|stone|blue|indigo|violet|purple)-(?:50|100|200|300|400|500|600|700|800|900|950)", "ai_landing_section">> :> [n |-> 1, len |-> 12]
  @@ <<"(?:bg|text|border)-(?:slate|gray|zinc|neutral|stone|blue|indigo|violet|purple)-(?:50|100|200|300|400|500|600|700|800|900|950)", "ai_full_page">> :> [n |-> 1, len |-> 12]
  @@ <<"\\/assets\\/index-[A-Za-z0-9_-]{6,12}\\.js", "script_vite_bundle">> :> [n |-> 1, len |-> 25]
  @@ <<"\\/assets\\/index-[A-Za-z0-9_-]{6,12}\\.js", "ai_full_page">> :> [n |-> 1, len |-> 25]
  @@ <<"\\/assets\\/index-[A-Za-z0-9_-]{6,12}\\.js", "/assets/index-a1b2c3d4.js">> :> [n |-> 1, len |-> 25]
  @@ <<"<div id=\"root\">\\s*<\\/div>", "div_root">> :> [n |-> 1, len |-> 21]
  @@ <<"<div id=\"root\">\\s*<\\/div>", "ai_full_page">> :> [n |-> 1, len |-> 21]
  @@ <<"lucide[-_]react", "js_radix_lucide">> :> [n |-> 1, len |-> 12]
  @@ <<"lucide", "ai_landing_section">> :> [n |-> 2, len |-> 6]
  @@ <<"lucide", "ai_full_page">> :> [n |-> 2, len |-> 6]
  @@ <<"lucide", "js_radix_lucide">> :> [n |-> 1, len |-> 6]
  @@ <<"href=[\"']https?:\\/\\/(?:www\\.)?example\\.com[\"']", "ai_landing_section">> :> [n |-> 1, len |-> 26]
  @@ <<"href=[\"']https?:\\/\\/(?:www\\.)?example\\.com[\"']", "ai_full_page">> :> [n |-> 1, len |-> 26]
  @@ <<"href=[\"']https?:\\/\\/(?:www\\.)?yourdomain\\.com[\"']", "ai_landing_section">> :> [n |-> 1, len |-> 29]
  @@ <<"href=[\"']https?:\\/\\/(?:www\\.)?yourdomain\\.com[\"']", "ai_full_page">> :> [n |-> 1, len |-> 29]
  @@ <<"href=[\"']mailto:you@example\\.com[\"']", "ai_landing_section">> :> [n |-> 1, len |-> 29]
  @@ <<"href=[\"']mailto:you@example\\.com[\"']", "ai_full_page">> :> [n |-> 1, len |-> 29]
  @@ <<"class(?:Name)?=\"[^\"]*\\b(?:container|wrapper|section|block|div|col|row|item|card|box|panel|element|component)-\\d+\\b", "ai_full_page">> :> [n |-> 2, len |-> 18]
  @@ <<"id=\"[^\"]*\\b(?:container|wrapper|section|block|div)-\\d+\\b", "ai_full_page">> :> [n |-> 1, len |-> 13]
  @@ <<"\\bdata-(?:block|wrapper|element|component)=\"\\d*\"", "ai_full_page">> :> [n |-> 1, len |-> 14]
  @@ <<"\\.vercel\\.app$", "app.vercel.app">> :> [n |-> 1, len |-> 11]
  @@ <<"<meta[^>]+name=[\"']generator[\"'][^>]+content=[\"'][^\"']*(?:Hostinger\\s*AI|AI\\s*Website|Durable\\.co|10Web|Jimdo\\s*AI|GoDaddy\\s*AI|Wix\\s*ADI|Zyro)[^\"']*[\"']", "meta_generator_durable">> :> [n |-> 1, len |-> 43]
  @@ <<"<meta[^>]+name=[\"']generator[\"'][^>]+content=[\"'][^\"']*(?:Hostinger\\s*AI|AI\\s*Website|Durable\\.co|10Web|Jimdo\\s*AI|GoDaddy\\s*AI|Wix\\s*ADI|Zyro)[^\"']*[\"']", "ai_full_page">> :> [n |-> 1, len |-> 43]
  @@ <<"src=[\"']([^\"']*\\/assets\\/[^\"']+\\.js)['\"]", "script_vite_bundle">> :> [n |-> 1, len |-> 31]
  @@ <<"src=[\"']([^\"']*\\/assets\\/[^\"']+\\.js)['\"]", "ai_full_page">> :> [n |-> 1, len |-> 31]
  @@ <<"fonts\\.googleapis\\.com[^\"']*[Ii]nter", "ai_landing_section">> :> [n |-> 1, len |-> 38]
  @@ <<"fonts\\.googleapis\\.com[^\"']*[Ii]nter", "ai_full_page">> :> [n |-> 1, len |-> 38]
  @@ <<"fonts\\.googleapis\\.com[^\"']*[Ii]nter", "https://fonts.googleapis.com/css2?family=Inter:wght@400;700">> :> [n |-> 1, len |-> 38]
  @@ <<"Pepyaka", "Pepyaka/1.19.10">> :> [n |-> 1, len |-> 7]
  @@ <<"Pepyaka", "pepyaka_long_banner">> :> [n |-> 1, len |-> 7]
  @@ <<"<script[^>]+src=[\"']([^\"']+)[\"']", "script_framer_cdn">> :> [n |-> 1, len |-> 56]
  @@ <<"<script[^>]+src=[\"']([^\"']+)[\"']", "script_vite_bundle">> :> [n |-> 1, len |-> 65]
  @@ <<"<script[^>]+src=[\"']([^\"']+)[\"']", "ai_full_page">> :> [n |-> 1, len |-> 65]
  @@ <<"<link[^>]+href=[\"']([^\"']+)[\"']", "ai_landing_section">> :> [n |-> 1, len |-> 72]
  @@ <<"<link[^>]+href=[\"']([^\"']+)[\"']", "ai_full_page">> :> [n |-> 1, len |-> 72]

TAG_TABLE ==
  <<"<script[^>]+src=[\"']([^\"']+)[\"']", "script_framer_cdn">> :> << "https://framerusercontent.com/sites/app.js" >>
  @@ <<"<script[^>]+src=[\"']([^\"']+)[\"']", "script_vite_bundle">> :> << "/assets/index-a1b2c3d4.js" >>
  @@ <<"<script[^>]+src=[\"']([^\"']+)[\"']", "ai_full_page">> :> << "/assets/index-a1b2c3d4.js" >>
  @@ <<"<link[^>]+href=[\"']([^\"']+)[\"']", "ai_landing_section">> :> << "https://fonts.googleapis.com/css2?family=Inter:wght@400;700" >>
  @@ <<"<link[^>]+href=[\"']([^\"']+)[\"']", "ai_full_page">> :> << "https://fonts.googleapis.com/css2?family=Inter:wght@400;700" >>

GROUP1_TABLE ==
  <<"src=[\"']([^\"']*\\/assets\\/[^\"']+\\.js)['\"]", "script_vite_bundle">> :> "/assets/index-a1b2c3d4.js"
  @@ <<"src=[\"']([^\"']*\\/assets\\/[^\"']+\\.js)['\"]", "ai_full_page">> :> "/assets/index-a1b2c3d4.js"

TEXT_LENGTH ==
  "p_hello" :> 12
  @@ "meta_generator_webflow" :> 41
  @@ "comment_built_with_framer" :> 26
  @@ "comment_created_in_webflow" :> 41
  @@ "div_site_container" :> 31
  @@ "div_sqs_block" :> 29
  @@ "comment_built_with_cursor" :> 26
  @@ "meta_cursor_ai" :> 43
  @@ "script_framer_cdn" :> 66
  @@ "script_vite_bundle" :> 75
  @@ "div_root" :> 21
  @@ "meta_generator_durable" :> 44
  @@ "comments_nav_hero" :> 40
  @@ "ai_landing_section" :> 632
  @@ "ai_full_page" :> 1002
  @@ "js_minified" :> 33
  @@ "js_radix_lucide" :> 67
  @@ "js_tutorial_comments" :> 95
  @@ "js_filler_300kb" :> 300000
  @@ "example.com" :> 11
  @@ "shop.webflow.io" :> 15
  @@ "app.vercel.app" :> 14
  @@ "demo.stackblitz.io" :> 18
  @@ "http" :> 4
  @@ "" :> 0
  @@ "nginx" :> 5
  @@ "Pepyaka/1.19.10" :> 15
  @@ "pepyaka_long_banner" :> 142
  @@ "GitHub.com" :> 10
  @@ "Squarespace" :> 11
  @@ "1.2.3" :> 5
  @@ "1" :> 1
  @@ "iad1::abc" :> 9
  @@ "HIT" :> 3
  @@ "01H" :> 3
  @@ "https://framerusercontent.com/sites/app.js" :> 42
  @@ "/assets/index-a1b2c3d4.js" :> 25
  @@ "https://fonts.googleapis.com/css2?family=Inter:wght@400;700" :> 59

(***************************************************************************)
(* Bounds of the model.                                                    *)
(***************************************************************************)
MaxHtmlLen == 2

MaxSignals == 4

MaxScore == 135

(***************************************************************************)
(* Strings and regular expressions.                                        *)
(***************************************************************************)
null == "<null>"

NoHeaders == [k \in {} |-> ""]

Min(a, b) == IF a < b THEN a ELSE b

Last(s) == s[Len(s)]

Front(s) == SubSeq(s, 1, Len(s) - 1)

Str(tok) == [text |-> tok, len |-> TEXT_LENGTH[tok]]

Slice(v, n) == [text |-> v.text, len |-> Min(v.len, n)]

RE_DOMAIN == DOMAIN RE_TABLE

TAG_DOMAIN == DOMAIN TAG_TABLE

GROUP1_DOMAIN == DOMAIN GROUP1_TABLE

\* RegExp.test on one token
Test(pat, tok) == <<pat, tok>> \in RE_DOMAIN

\* RegExp.test on a text
TestText(pat, text) == \E i \in 1..Len(text) : Test(pat, text[i])

\* RegExp.exec on a text that matches: m[0], the first match
ExecText(pat, text) ==
  LET i == CHOOSE j \in 1..Len(text) :
             Test(pat, text[j]) /\ \A k \in 1..(j - 1) : ~Test(pat, text[k])
  IN  [text |-> text[i], len |-> RE_TABLE[<<pat, text[i]>>].len]

\* String.match with the g flag: the number of matches (0 for null)
RECURSIVE CountText(_, _)
CountText(pat, text) ==
  IF text = <<>> THEN 0
  ELSE CountText(pat, Front(text))
       + (IF Test(pat, Last(text)) THEN RE_TABLE[<<pat, Last(text)>>].n ELSE 0)

\* the first capture group of every match of a g-flagged tag pattern
RECURSIVE TagSrcs(_, _)
TagSrcs(tagPattern, text) ==
  IF text = <<>> THEN <<>>
  ELSE TagSrcs(tagPattern, Front(text))
       \o (IF <<tagPattern, Last(text)>> \in TAG_DOMAIN
           THEN TAG_TABLE[<<tagPattern, Last(text)>>] ELSE <<>>)

toLowerCase(tok) == IF tok = "Shop.Webflow.IO" THEN "shop.webflow.io" ELSE tok

trimValue(tok) == IF tok = " 1 " THEN "1" ELSE tok

\* String.trim on a token sequence: the blanks at both ends go
RECURSIVE trim(_)
trim(s) ==
  IF s = <<>> THEN s
  ELSE IF Head(s) = " " THEN trim(Tail(s))
  ELSE IF Last(s) = " " THEN trim(Front(s))
  ELSE s

\* what new URL(u) accepts: a scheme followed by a host
Hosts == {"example.com", "shop.webflow.io", "Shop.Webflow.IO", "app.vercel.app", "demo.stackblitz.io"}

\* "https://" before "HTTP://example.com" parses too: the host is http, the
\* port is empty and the path is //example.com
IsUrl(u) ==
  \/ Len(u) = 2 /\ u[1] \in {"http://", "https://"} /\ u[2] \in Hosts
  \/ Len(u) = 3 /\ u[1] \in {"http://", "https://"} /\ u[2] = "HTTP://" /\ u[3] \in Hosts

extractHostname(u) ==
  IF IsUrl(u) THEN (IF Len(u) = 3 THEN "http" ELSE toLowerCase(u[2]))
  ELSE IF u = <<>> THEN "" ELSE toLowerCase(Last(u))

headerValue(headers, name) == IF name \in DOMAIN headers THEN headers[name] ELSE null

\* a ?? b
Coalesce(a, b) == IF a = null THEN b ELSE a

(***************************************************************************)
(* Scoring.                                                                *)
(***************************************************************************)
CONFIDENCE_WEIGHTS == [high |-> 10, medium |-> 5, low |-> 2]

MIN_PLATFORM_SCORE == 5

MIN_AI_SCORE == 10

CATEGORY_CAP == 15

Signal(category, confidence, description, matchedValue) ==
  [category |-> category, confidence |-> confidence,
   description |-> description, matchedValue |-> matchedValue]

\* a weight table whose fallback is negative
signedWeight(confidence) ==
  IF confidence \in DOMAIN CONFIDENCE_WEIGHTS THEN CONFIDENCE_WEIGHTS[confidence] ELSE 0 - 1

confidenceWeight(confidence) ==
  IF confidence \in DOMAIN CONFIDENCE_WEIGHTS THEN CONFIDENCE_WEIGHTS[confidence] ELSE 1

\* the loop over the signals: the categories in the order they were first
\* seen, and each category's running subtotal
RECURSIVE byCategory(_)
byCategory(signals) ==
  IF signals = <<>> THEN [keys |-> <<>>, val |-> [c \in {} |-> 0]]
  ELSE LET prev == byCategory(Front(signals))
           sig  == Last(signals)
           w    == confidenceWeight(sig.confidence)
       IN  IF sig.category \in DOMAIN prev.val
           THEN [keys |-> prev.keys,
                 val  |-> [prev.val EXCEPT ![sig.category] = @ + w]]
           ELSE [keys |-> Append(prev.keys, sig.category),
                 val  |-> (sig.category :> w) @@ prev.val]

\* a subtotal without the ceiling
uncappedSubtotal(v) == v

capSubtotal(v) == Min(v, CATEGORY_CAP)

\* Object.values(byCategory).reduce((sum, v) => sum + Math.min(v, CATEGORY_CAP), 0)
RECURSIVE reduceCapped(_, _)
reduceCapped(keys, val) ==
  IF keys = <<>> THEN 0
  ELSE reduceCapped(Front(keys), val) + capSubtotal(val[Last(keys)])

scoreSignals(signals) ==
  LET b == byCategory(signals) IN reduceCapped(b.keys, b.val)

\* the labelling with strict comparisons
strictLabel(score, min) ==
  IF score > min * 3 THEN "high"
  ELSE IF 2 * score > min * 3 THEN "medium"
  ELSE IF score > min THEN "low"
  ELSE "none"

confidenceLabel(score, min) ==
  IF score >= min * 3 THEN "high"
  ELSE IF 2 * score >= min * 3 THEN "medium"
  ELSE IF score >= min THEN "low"
  ELSE "none"

(***************************************************************************)
(* Pattern matching helpers and the platform detector.                     *)
(***************************************************************************)
matchAll(text, patterns, category) ==
  LET hits == SelectSeq(patterns, LAMBDA e : TestText(e[1], text))
  IN  [i \in 1..Len(hits) |->
         Signal(category, hits[i][2], hits[i][3],
                Slice(ExecText(hits[i][1], text), 120))]

\* the signal of one tag URL: the first pattern of the list that matches it
tagSignal(src, urlPatterns, category) ==
  LET hits == SelectSeq(urlPatterns, LAMBDA e : Test(e[1], src))
  IN  IF hits = <<>> THEN <<>>
      ELSE << Signal(category, hits[1][2], hits[1][3], Slice(Str(src), 120)) >>

RECURSIVE tagSignals(_, _, _)
tagSignals(srcs, urlPatterns, category) ==
  IF srcs = <<>> THEN <<>>
  ELSE tagSignals(Front(srcs), urlPatterns, category)
       \o tagSignal(Last(srcs), urlPatterns, category)

matchTagSrcs(text, tagPattern, urlPatterns, category) ==
  tagSignals(TagSrcs(tagPattern, text), urlPatterns, category)

htmlCategories ==
  << "meta_tag", "html_comment", "data_attribute", "css_class",
     "css_variable", "js_global", "dom_id", "script_content", "font" >>

\* a matcher that skips the hostname patterns
noHostnameSignals(fp, hostname) == <<>>

hostnameSignals(fp, hostname) ==
  IF "hostname" \in DOMAIN fp
  THEN LET hits == SelectSeq(fp.hostname, LAMBDA e : Test(e[1], hostname))
       IN  [i \in 1..Len(hits) |->
              Signal("hostname", hits[i][2], hits[i][3], Str(hostname))]
  ELSE <<>>

serverSignals(fp, headers) ==
  IF "http_header" \in DOMAIN fp
  THEN LET server == Coalesce(headerValue(headers, "server"), "")
           hits   == SelectSeq(fp.http_header, LAMBDA e : Test(e[1], server))
       IN  [i \in 1..Len(hits) |->
              Signal("http_header", hits[i][2], hits[i][3], Slice(Str(server), 60))]
  ELSE <<>>

wixSignals(platform, headers) ==
  IF platform = "Wix"
  THEN LET pepyaka == Coalesce(headerValue(headers, "server"), "")
       IN  (IF Test("Pepyaka", pepyaka)
            THEN << Signal("http_header", "high", "Wix Pepyaka server", Str(pepyaka)) >>
            ELSE <<>>)
           \o
           (IF trimValue(Coalesce(headerValue(headers, "x-meta-site-is-wix-site"), "")) = "1"
            THEN << Signal("http_header", "high", "Wix site confirmation header", Str("1")) >>
            ELSE <<>>)
  ELSE <<>>

\* a matcher that does not read the server-version header
noBoltSignals(platform, headers) == <<>>

boltSignals(platform, headers) ==
  IF platform = "Bolt"
  THEN LET sv == Coalesce(headerValue(headers, "server-version"), "")
       IN  IF sv # ""
           THEN << Signal("http_header", "high", "Bolt server-version header", Slice(Str(sv), 60)) >>
           ELSE <<>>
  ELSE <<>>

RECURSIVE contentSignals(_, _, _)
contentSignals(fp, text, cats) ==
  IF cats = <<>> THEN <<>>
  ELSE contentSignals(fp, text, Front(cats))
       \o (IF Last(cats) \in DOMAIN fp
           THEN matchAll(text, fp[Last(cats)], Last(cats)) ELSE <<>>)

cdnSignals(fp, text) ==
  (IF "script_src" \in DOMAIN fp
   THEN matchTagSrcs(text, "<script[^>]+src=[\"']([^\"']+)[\"']", fp.script_src, "cdn_url")
   ELSE <<>>)
  \o (IF "link_href" \in DOMAIN fp
      THEN matchTagSrcs(text, "<link[^>]+href=[\"']([^\"']+)[\"']", fp.link_href, "cdn_url")
      ELSE <<>>)
  \o (IF "img_src" \in DOMAIN fp
      THEN matchTagSrcs(text, "<img[^>]+src=[\"']([^\"']+)[\"']", fp.img_src, "cdn_url")
      ELSE <<>>)

detectPlatform(platform, fp, text, headers, finalU) ==
  hostnameSignals(fp, extractHostname(finalU))
  \o serverSignals(fp, headers)
  \o wixSignals(platform, headers)
  \o boltSignals(platform, headers)
  \o contentSignals(fp, text, htmlCategories)
  \o cdnSignals(fp, text)

(***************************************************************************)
(* The AI heuristic detector: the eleven heuristics, each on the fetched   *)
(* artifacts and the script bundle.                                        *)
(***************************************************************************)
RECURSIVE countAll(_, _)
countAll(patterns, text) ==
  IF patterns = <<>> THEN 0
  ELSE countAll(Front(patterns), text) + CountText(Last(patterns), text)

countPatterns(patterns, text) ==
  Len(SelectSeq(patterns, LAMBDA p : TestText(p, text)))

NumStr(n) == [text |-> ToString(n), len |-> IF n < 10 THEN 1 ELSE IF n < 100 THEN 2 ELSE 3]

overCommenter(fullSource) ==
  LET commentHits == countAll(OVER_COMMENTER_PATTERNS, fullSource)
  IN  IF commentHits >= 5
      THEN << Signal("over_commenter", "high", "Tutorial-style comments detected", NumStr(commentHits)) >>
      ELSE IF commentHits >= 2
      THEN << Signal("over_commenter", "medium", "Some tutorial-style comments detected", NumStr(commentHits)) >>
      ELSE <<>>

shadcnUi(fullSource) ==
  LET shadcnHits == countPatterns(SHADCN_PATTERNS, fullSource)
  IN  IF shadcnHits >= 3
      THEN << Signal("shadcn_ui", "high", "shadcn/ui component signatures detected", NumStr(shadcnHits)) >>
      ELSE IF shadcnHits >= 1
      THEN << Signal("shadcn_ui", "medium", "shadcn/ui component signatures detected", NumStr(shadcnHits)) >>
      ELSE <<>>

tailwindStack(fullSource) ==
  LET tailwindHits == countPatterns(TAILWIND_PATTERNS, fullSource)
  IN  IF tailwindHits >= 2
      THEN << Signal("tailwind_stack", "medium", "Tailwind CSS utility pattern detected", NumStr(tailwindHits)) >>
      ELSE <<>>

\* a build-tool rule that does not look for the SPA root
viteBuildLow(text) ==
  IF countPatterns(VITE_PATTERNS, text) >= 1
  THEN << Signal("vite_build", "low", "Vite build artifacts detected", [text |-> "vite", len |-> 4]) >>
  ELSE <<>>

viteBuild(text) ==
  LET viteHits == countPatterns(VITE_PATTERNS, text)
      reactSpa == \E i \in 1..Len(REACT_SPA_PATTERNS) : TestText(REACT_SPA_PATTERNS[i], text)
  IN  IF viteHits >= 1
      THEN << Signal("vite_build", IF reactSpa THEN "medium" ELSE "low",
                     IF reactSpa THEN "Vite build artifacts + React SPA root"
                                 ELSE "Vite build artifacts detected",
                     [text |-> "vite", len |-> 4]) >>
      ELSE <<>>

lucideIcons(fullSource) ==
  IF \E i \in 1..Len(LUCIDE_PATTERNS) : TestText(LUCIDE_PATTERNS[i], fullSource)
  THEN << Signal("lucide_icons", "medium", "Lucide icon library detected", [text |-> "lucide", len |-> 6]) >>
  ELSE <<>>

interFont(text, fullSource) ==
  IF \/ TestText("fonts\\.googleapis\\.com[^\"']*[Ii]nter", text)
     \/ TestText("font-family:[^;'\"]*['\"]Inter['\"]", fullSource)
     \/ TestText("['\"]Inter['\"],", fullSource)
  THEN << Signal("inter_font", "low", "Inter font detected", [text |-> "Inter", len |-> 5]) >>
  ELSE <<>>

placeholderLinks(text) ==
  LET placeholderHits == countAll(PLACEHOLDER_LINK_PATTERNS, text)
  IN  IF placeholderHits >= 3
      THEN << Signal("placeholder_links", "high", "Placeholder/hallucinated links detected", NumStr(placeholderHits)) >>
      ELSE IF placeholderHits >= 1
      THEN << Signal("placeholder_links", "medium", "Placeholder link detected", NumStr(placeholderHits)) >>
      ELSE <<>>

genericNaming(text) ==
  LET namingHits == countAll(GENERIC_NAMING_PATTERNS, text)
  IN  IF namingHits >= 4
      THEN << Signal("generic_naming", "medium", "Generic numbered class/ID names detected", NumStr(namingHits)) >>
      ELSE IF namingHits >= 2
      THEN << Signal("generic_naming", "low", "Some generic numbered class names detected", NumStr(namingHits)) >>
      ELSE <<>>

isPrototypeHost(hostname) ==
  \E i \in 1..Len(PROTOTYPE_HOSTING_HOSTNAMES) : Test(PROTOTYPE_HOSTING_HOSTNAMES[i], hostname)

prototypeHosting(hostname) ==
  IF isPrototypeHost(hostname)
  THEN << Signal("prototype_hosting", "medium", "Hosted on a prototype/AI-default platform subdomain", Str(hostname)) >>
  ELSE <<>>

\* the header rule without the test of the prototype host
hostingPlatformAlways(headers, hostname) ==
  LET vercelId   == Coalesce(headerValue(headers, "x-vercel-id"),
                             Coalesce(headerValue(headers, "x-vercel-cache"), ""))
      netlifyHdr == Coalesce(headerValue(headers, "x-nf-request-id"),
                             Coalesce(headerValue(headers, "x-netlify"), ""))
  IN  (IF vercelId # ""
       THEN << Signal("hosting_platform", "low", "Hosted on Vercel", [text |-> "vercel", len |-> 6]) >>
       ELSE <<>>)
      \o
      (IF netlifyHdr # ""
       THEN << Signal("hosting_platform", "low", "Hosted on Netlify", [text |-> "netlify", len |-> 7]) >>
       ELSE <<>>)

hostingPlatform(headers, hostname) ==
  LET vercelId   == Coalesce(headerValue(headers, "x-vercel-id"),
                             Coalesce(headerValue(headers, "x-vercel-cache"), ""))
      netlifyHdr == Coalesce(headerValue(headers, "x-nf-request-id"),
                             Coalesce(headerValue(headers, "x-netlify"), ""))
  IN  (IF vercelId # "" /\ ~isPrototypeHost(hostname)
       THEN << Signal("hosting_platform", "low", "Hosted on Vercel", [text |-> "vercel", len |-> 6]) >>
       ELSE <<>>)
      \o
      (IF netlifyHdr # "" /\ ~isPrototypeHost(hostname)
       THEN << Signal("hosting_platform", "low", "Hosted on Netlify", [text |-> "netlify", len |-> 7]) >>
       ELSE <<>>)

aiGeneratorMeta(text) ==
  LET hits == SelectSeq(AI_GENERATOR_META_PATTERNS, LAMBDA p : TestText(p, text))
  IN  IF hits = <<>> THEN <<>>
      ELSE << Signal("ai_generator_meta", "high", "AI website builder generator meta tag detected",
                     Slice(ExecText(hits[1], text), 120)) >>

\* the heuristics of detectAiHeuristics, once the bundle is there (or is not)
aiHeuristicSignals(text, headers, finalU, js) ==
  LET hostname   == extractHostname(finalU)
      fullSource == text \o << "\n" >> \o js
  IN  overCommenter(fullSource)
      \o shadcnUi(fullSource)
      \o tailwindStack(fullSource)
      \o viteBuild(text)
      \o lucideIcons(fullSource)
      \o interFont(text, fullSource)
      \o placeholderLinks(text)
      \o genericNaming(text)
      \o prototypeHosting(hostname)
      \o hostingPlatform(headers, hostname)
      \o aiGeneratorMeta(text)

\* the script URL detectAiHeuristics finds in the HTML: capture group 1 of
\* the first match, or null
\* a match that does not look at the text
anyScriptMatch(text) == "/assets/index-a1b2c3d4.js"

scriptMatch(text) ==
  LET pat == "src=[\"']([^\"']*\\/assets\\/[^\"']+\\.js)['\"]"
  IN  IF TestText(pat, text)
      THEN GROUP1_TABLE[<<pat, ExecText(pat, text).text>>]
      ELSE null

startsWithHttp(tok) ==
  tok \in {"https://framerusercontent.com/sites/app.js",
           "https://fonts.googleapis.com/css2?family=Inter:wght@400;700"}

\* whether the bundle's URL can be built: new URL(path, finalUrl) throws on
\* a base that is no URL
jsUrlResolves(src, finalU) == startsWithHttp(src) \/ IsUrl(finalU)

\* new TextDecoder().decode(buf.slice(0, 300_000)): the tokens that lie
\* within the first 300000 bytes
RECURSIVE byteLength(_)
byteLength(body) ==
  IF body = <<>> THEN 0 ELSE byteLength(Front(body)) + TEXT_LENGTH[Last(body)]

RECURSIVE sliceBytes(_, _)
sliceBytes(body, n) ==
  IF body = <<>> \/ byteLength(body) <= n THEN body ELSE sliceBytes(Front(body), n)

(***************************************************************************)
(* detectUrl: the best platform, the bucket decision, the result records.  *)
(***************************************************************************)
Platforms == {PlatformOrder[i] : i \in 1..Len(PlatformOrder)}

NoScores == [p \in {} |-> 0]

\* Array.prototype.sort with (a, b) => b[1] - a[1]: stable, descending
RECURSIVE insertDesc(_, _)
insertDesc(sorted, e) ==
  IF sorted = <<>> THEN << e >>
  ELSE IF Last(sorted)[2] >= e[2] THEN Append(sorted, e)
  ELSE Append(insertDesc(Front(sorted), e), Last(sorted))

RECURSIVE sortDesc(_)
sortDesc(entries) ==
  IF entries = <<>> THEN <<>>
  ELSE insertDesc(sortDesc(Front(entries)), Last(entries))

\* the entry an unstable sort may put first: the last of the highest
lastMaxEntry(scores) ==
  LET top == CHOOSE i \in 1..Len(PlatformOrder) :
               /\ \A j \in 1..Len(PlatformOrder) :
                    scores[PlatformOrder[j]] <= scores[PlatformOrder[i]]
               /\ \A j \in (i + 1)..Len(PlatformOrder) :
                    scores[PlatformOrder[j]] < scores[PlatformOrder[i]]
  IN  << PlatformOrder[top], scores[PlatformOrder[top]] >>

\* Object.entries(allPlatformScores).sort(...)[0] ?? ["", 0]
bestEntry(scores) ==
  Head(sortDesc([i \in 1..Len(PlatformOrder) |->
                   << PlatformOrder[i], scores[PlatformOrder[i]] >>])
       \o << << "", 0 >> >>)

\* a decision that tests the AI score before the platform score
aiFirstDecision(bestP, bestS, signalsMap, aiS) ==
  IF aiS >= MIN_AI_SCORE
  THEN [bucket |-> "ai-assisted",
        bucketConfidence |-> confidenceLabel(aiS, MIN_AI_SCORE),
        platform |-> null, platformScore |-> 0, platformSignals |-> <<>>]
  ELSE IF bestS >= MIN_PLATFORM_SCORE
  THEN [bucket |-> "platform-assisted",
        bucketConfidence |-> confidenceLabel(bestS, MIN_PLATFORM_SCORE),
        platform |-> bestP, platformScore |-> bestS,
        platformSignals |-> IF bestP \in DOMAIN signalsMap THEN signalsMap[bestP] ELSE <<>>]
  ELSE [bucket |-> "no-ai-signals", bucketConfidence |-> "none",
        platform |-> null, platformScore |-> 0, platformSignals |-> <<>>]

\* a decision whose AI threshold is exclusive
strictAiDecision(bestP, bestS, signalsMap, aiS) ==
  IF bestS >= MIN_PLATFORM_SCORE
  THEN [bucket |-> "platform-assisted",
        bucketConfidence |-> confidenceLabel(bestS, MIN_PLATFORM_SCORE),
        platform |-> bestP, platformScore |-> bestS,
        platformSignals |-> IF bestP \in DOMAIN signalsMap THEN signalsMap[bestP] ELSE <<>>]
  ELSE IF aiS > MIN_AI_SCORE
  THEN [bucket |-> "ai-assisted",
        bucketConfidence |-> confidenceLabel(aiS, MIN_AI_SCORE),
        platform |-> null, platformScore |-> 0, platformSignals |-> <<>>]
  ELSE [bucket |-> "no-ai-signals", bucketConfidence |-> "none",
        platform |-> null, platformScore |-> 0, platformSignals |-> <<>>]

\* a decision that attaches the best platform in every branch
platformAlwaysDecision(bestP, bestS, signalsMap, aiS) ==
  IF bestS >= MIN_PLATFORM_SCORE
  THEN [bucket |-> "platform-assisted",
        bucketConfidence |-> confidenceLabel(bestS, MIN_PLATFORM_SCORE),
        platform |-> bestP, platformScore |-> bestS,
        platformSignals |-> IF bestP \in DOMAIN signalsMap THEN signalsMap[bestP] ELSE <<>>]
  ELSE IF aiS >= MIN_AI_SCORE
  THEN [bucket |-> "ai-assisted",
        bucketConfidence |-> confidenceLabel(aiS, MIN_AI_SCORE),
        platform |-> bestP, platformScore |-> bestS, platformSignals |-> <<>>]
  ELSE [bucket |-> "no-ai-signals", bucketConfidence |-> "none",
        platform |-> bestP, platformScore |-> bestS, platformSignals |-> <<>>]

bucketDecision(bestP, bestS, signalsMap, aiS) ==
  IF bestS >= MIN_PLATFORM_SCORE
  THEN [bucket |-> "platform-assisted",
        bucketConfidence |-> confidenceLabel(bestS, MIN_PLATFORM_SCORE),
        platform |-> bestP, platformScore |-> bestS,
        platformSignals |-> IF bestP \in DOMAIN signalsMap THEN signalsMap[bestP] ELSE <<>>]
  ELSE IF aiS >= MIN_AI_SCORE
  THEN [bucket |-> "ai-assisted",
        bucketConfidence |-> confidenceLabel(aiS, MIN_AI_SCORE),
        platform |-> null, platformScore |-> 0, platformSignals |-> <<>>]
  ELSE [bucket |-> "no-ai-signals", bucketConfidence |-> "none",
        platform |-> null, platformScore |-> 0, platformSignals |-> <<>>]

\* a failure result that keeps a bucket of the success path
failureAsNoSignals(rawU, finalU, message) ==
  [url |-> rawU, finalUrl |-> finalU,
   bucket |-> "no-ai-signals", bucketConfidence |-> "none",
   platform |-> null, platformScore |-> 0, platformSignals |-> <<>>,
   allPlatformScores |-> NoScores,
   aiScore |-> 0, aiSignals |-> <<>>,
   error |-> message]

failureResult(rawU, finalU, message) ==
  [url |-> rawU, finalUrl |-> finalU,
   bucket |-> "unknown", bucketConfidence |-> "none",
   platform |-> null, platformScore |-> 0, platformSignals |-> <<>>,
   allPlatformScores |-> NoScores,
   aiScore |-> 0, aiSignals |-> <<>>,
   error |-> message]

\* a result that turns a status of 400 or more into a failure
resultByStatus(rawU, finalU, d, scores, aiS, ai) ==
  IF responseStatus >= 400
  THEN [url |-> rawU, finalUrl |-> finalU,
        bucket |-> "unknown", bucketConfidence |-> "none",
        platform |-> null, platformScore |-> 0, platformSignals |-> <<>>,
        allPlatformScores |-> NoScores,
        aiScore |-> 0, aiSignals |-> <<>>,
        error |-> "http_error"]
  ELSE [url |-> rawU, finalUrl |-> finalU,
        bucket |-> d.bucket, bucketConfidence |-> d.bucketConfidence,
        platform |-> d.platform, platformScore |-> d.platformScore,
        platformSignals |-> d.platformSignals,
        allPlatformScores |-> scores,
        aiScore |-> aiS, aiSignals |-> ai,
        error |-> null]

\* a result that leaves the AI signals out when a platform won
resultWithoutAi(rawU, finalU, d, scores, aiS, ai) ==
  [url |-> rawU, finalUrl |-> finalU,
   bucket |-> d.bucket, bucketConfidence |-> d.bucketConfidence,
   platform |-> d.platform, platformScore |-> d.platformScore,
   platformSignals |-> d.platformSignals,
   allPlatformScores |-> scores,
   aiScore |-> IF d.bucket = "platform-assisted" THEN 0 ELSE aiS,
   aiSignals |-> IF d.bucket = "platform-assisted" THEN <<>> ELSE ai,
   error |-> null]

successResult(rawU, finalU, d, scores, aiS, ai) ==
  [url |-> rawU, finalUrl |-> finalU,
   bucket |-> d.bucket, bucketConfidence |-> d.bucketConfidence,
   platform |-> d.platform, platformScore |-> d.platformScore,
   platformSignals |-> d.platformSignals,
   allPlatformScores |-> scores,
   aiScore |-> aiS, aiSignals |-> ai,
   error |-> null]

\* the batch endpoint's row without a URL
emptyUrlResult ==
  [url |-> <<>>, finalUrl |-> <<>>,
   bucket |-> "unknown", bucketConfidence |-> "none",
   platform |-> null, platformScore |-> 0, platformSignals |-> <<>>,
   allPlatformScores |-> NoScores,
   aiScore |-> 0, aiSignals |-> <<>>,
   error |-> "empty_url"]

normalizeUrl(raw) ==
  LET u == trim(raw)
  IN  IF u # <<>> /\ Head(u) \in {"http://", "https://"} THEN u ELSE << "https://" >> \o u

\* err instanceof Error ? err.message : String(err)
errorText(err) == IF err.isError THEN err.message ELSE err.value

\* if (fetchError): null and the empty string are falsy
truthy(s) == s # null /\ s # ""

(***************************************************************************)
(* The inputs: what the callers pass and what the network answers.         *)
(***************************************************************************)
RawUrls ==
  { <<>>,
    << " " >>,
    << "example.com" >>,
    << " ", "https://", "Shop.Webflow.IO", " " >>,
    << "http://", "app.vercel.app" >>,
    << "HTTP://", "example.com" >> }

NoRow == [c \in {} |-> <<>>]

\* the rows of a batch: no url column, an empty or blank cell, a URL with
\* blanks around it, a URL that is never answered
Rows ==
  { NoRow } \cup
  { [c \in {"url"} |-> u] :
      u \in { <<>>, << " " >>, << " ", "https://", "Shop.Webflow.IO", " " >>,
               << "HTTP://", "example.com" >> } }

urlColumn == "url"

\* response.url: empty, or the URL the redirects ended at
ResponseUrls(u) ==
  IF extractHostname(u) = "example.com"
  THEN { <<>>, << "https://", "demo.stackblitz.io" >> }
  ELSE { <<>> }

HeaderSets ==
  { NoHeaders,
    [k \in {"server-version"} |-> "1.2.3"],
    [k \in {"server", "x-meta-site-is-wix-site"} |->
       IF k = "server" THEN "Pepyaka/1.19.10" ELSE " 1 "],
    [k \in {"server", "x-vercel-id", "x-netlify"} |->
       IF k = "server" THEN "GitHub.com"
       ELSE IF k = "x-vercel-id" THEN "iad1::abc" ELSE "true"],
    [k \in {"x-vercel-id", "x-vercel-cache", "x-nf-request-id"} |->
       IF k = "x-vercel-id" THEN "" ELSE IF k = "x-vercel-cache" THEN "HIT" ELSE "01H"] }

\* the primary responses: a status code and the headers; the code reads the
\* status nowhere
Responses ==
  { [status |-> 200, headers |-> h] : h \in HeaderSets }
    \cup { [status |-> 404, headers |-> NoHeaders],
           [status |-> 503, headers |-> [k \in {"server"} |-> "pepyaka_long_banner"]] }

\* the hosts that answer: nothing answers for the one-label host http
Answers(u) == IsUrl(u) /\ Len(u) = 2

HtmlVocabulary ==
  << "p_hello", "meta_generator_webflow", "comment_built_with_framer",
     "comment_created_in_webflow", "div_site_container", "div_sqs_block",
     "comment_built_with_cursor", "meta_cursor_ai",
     "script_framer_cdn", "script_vite_bundle",
     "div_root", "meta_generator_durable", "comments_nav_hero",
     "ai_landing_section" >>

\* the documents: up to MaxHtmlLen fragments, written in the vocabulary's order
HtmlDocs ==
  UNION { { [i \in 1..n |-> HtmlVocabulary[f[i]]] :
              f \in { g \in [1..n -> 1..Len(HtmlVocabulary)] :
                        \A i \in 1..(n - 1) : g[i] <= g[i + 1] } } :
          n \in 0..MaxHtmlLen }

JsBundles ==
  { <<>>,
    << "js_minified" >>,
    << "js_radix_lucide" >>,
    << "js_tutorial_comments" >>,
    << "js_filler_300kb", "js_tutorial_comments" >> }

\* what fetch and the body readers reject with
NetworkErrors ==
  { [isError |-> TRUE,  message |-> "fetch failed", value |-> ""],
    [isError |-> TRUE,  message |-> "",             value |-> ""],
    [isError |-> FALSE, message |-> "",             value |-> "ECONNRESET"] }

\* what the bundle's fetch and body reader reject with, besides the abort
AdjunctErrors == { [isError |-> TRUE, message |-> "fetch failed", value |-> ""] }

AbortError == [isError |-> TRUE, message |-> "The operation was aborted", value |-> ""]

InvalidUrlError == [isError |-> TRUE, message |-> "Invalid URL", value |-> ""]

(***************************************************************************)
(* The state after construction.                                           *)
(***************************************************************************)
PipelineInit ==
  /\ caller = "none" /\ row = NoRow /\ pc = "idle"
  /\ rawUrl = <<>> /\ url = <<>> /\ html = <<>>
  /\ responseHeaders = NoHeaders /\ finalUrl = <<>> /\ fetchError = null
  /\ responseStatus = 0
  /\ caught = <<>> /\ adjunctCaught = <<>> /\ issued = <<>>
  /\ timer = "unset" /\ adjunctTimer = "unset"
  /\ allPlatformScores = NoScores /\ allPlatformSignalsMap = NoScores
  /\ bestPlatform = "" /\ bestPlatformScore = 0
  /\ jsSource = <<>> /\ aiSignals = <<>> /\ aiScore = 0
  /\ ran = {}
  /\ returned = <<>>

ScoreIdle == sigList = <<>> /\ total = 0

LabelIdle == labelScore = 0 /\ labelMin = MIN_PLATFORM_SCORE /\ label = "none"

TieScores == {0, MIN_PLATFORM_SCORE, 2 * MIN_PLATFORM_SCORE}

BestIdle ==
  /\ scoreTable = [p \in Platforms |-> 0]
  /\ verdict = bucketDecision(bestEntry([p \in Platforms |-> 0])[1], 0, NoScores, 0)

NoInput == [text |-> <<>>, headers |-> NoHeaders, finalUrl |-> <<>>, js |-> <<>>, run |-> FALSE]

HeurIdle == heurInput = NoInput /\ heurSignals = <<>> /\ heurScore = 0

\* no batch request yet; the g-flagged pattern objects as they were created
BatchIdle ==
  /\ batchRows = <<>> /\ det = <<>> /\ fetched = <<>> /\ results = <<>>
  /\ batchStatus = 0
  /\ lastIndex = [a \in {"PLACEHOLDER_LINK_PATTERNS", "GENERIC_NAMING_PATTERNS"} |-> 0]

\* no upload and no request yet
FanIdle ==
  /\ allRows = 0 /\ chunks = <<>> /\ requestRows = 0 /\ inFlight = 0
  /\ answer = 0 /\ started = 0

Init ==
  PipelineInit /\ ScoreIdle /\ LabelIdle /\ BestIdle /\ HeurIdle /\ BatchIdle /\ FanIdle

(***************************************************************************)
(* detectUrl, one action per stretch of code between two awaits.           *)
(***************************************************************************)
withRow(result, r) ==
  [k \in DOMAIN result \cup {"originalRow"} |->
     IF k = "originalRow" THEN r ELSE result[k]]

\* what the caller receives: the batch callback adds the row
deliver(result) ==
  Append(returned, IF caller = "batch" THEN withRow(result, row) ELSE result)

\* lines 822-837: normalise the URL, arm the timer, issue the fetch
detectUrlCall(arg) ==
  /\ rawUrl' = arg
  /\ url' = normalizeUrl(arg)
  /\ finalUrl' = normalizeUrl(arg)
  /\ html' = <<>> /\ responseHeaders' = NoHeaders /\ fetchError' = null
  /\ timer' = "armed"
  /\ issued' = Append(issued, "primary")
  /\ pc' = "fetch"
  /\ UNCHANGED << caught, responseStatus, adjunctCaught, adjunctTimer,
                  allPlatformScores, allPlatformSignalsMap, bestPlatform,
                  bestPlatformScore, jsSource, aiSignals, aiScore, ran,
                  returned >>

\* the end of detectAiHeuristics and of detectUrl (lines 592-804, 874-911):
\* the heuristics on the artifacts and the bundle, the AI score, the bucket
\* decision, the result
finish(text, headers, finalU, js) ==
  /\ jsSource' = js
  /\ aiSignals' = aiHeuristicSignals(text, headers, finalU, js)
  /\ aiScore' = scoreSignals(aiSignals')
  /\ ran' = ran \cup {"platform", "ai"}
  /\ returned' = deliver(successResult(rawUrl, finalU,
                     bucketDecision(bestPlatform', bestPlatformScore',
                                    allPlatformSignalsMap', aiScore'),
                     allPlatformScores', aiScore', aiSignals'))
  /\ pc' = "done"

\* lines 859-873 and the head of detectAiHeuristics (lines 566-590): every
\* fingerprint is matched and scored, the best platform is taken, and the
\* bundle is fetched when the HTML names one
analyse(text, headers, finalU) ==
  /\ allPlatformSignalsMap' =
       [p \in Platforms |-> detectPlatform(p, FINGERPRINTS[p], text, headers, finalU)]
  /\ allPlatformScores' = [p \in Platforms |-> scoreSignals(allPlatformSignalsMap'[p])]
  /\ bestPlatform' = bestEntry(allPlatformScores')[1]
  /\ bestPlatformScore' = allPlatformScores'[bestPlatform']
  /\ adjunctCaught' = adjunctCaught
  /\ IF scriptMatch(text) # null /\ jsUrlResolves(scriptMatch(text), finalU)
     THEN /\ pc' = "adjunct_fetch"
          /\ adjunctTimer' = "armed"
          /\ issued' = Append(issued, "adjunct")
          /\ ran' = ran \cup {"platform"}
          /\ UNCHANGED << jsSource, aiSignals, aiScore, returned >>
     ELSE /\ UNCHANGED << adjunctTimer, issued >>
          /\ finish(text, headers, finalU, <<>>)

\* lines 844-857: the catch block and the test of fetchError
catch(err, headers, finalU) ==
  /\ caught' = Append(caught, err)
  /\ fetchError' = errorText(err)
  /\ IF truthy(errorText(err))
     THEN /\ returned' = deliver(failureResult(rawUrl, finalU, errorText(err)))
          /\ pc' = "done"
          /\ UNCHANGED << adjunctTimer, adjunctCaught, issued, allPlatformScores,
                          allPlatformSignalsMap, bestPlatform, bestPlatformScore,
                          jsSource, aiSignals, aiScore, ran >>
     ELSE analyse(html, headers, finalU)

\* the single-URL endpoint without a url parameter: 400, no detection
OnRequestGetMissing ==
  /\ pc = "idle"
  /\ UNCHANGED << scoreVars, labelVars, bestVars, heurVars, batchVars, fanVars >>
  /\ pc' = "http400"
  /\ caller' = "detect"
  /\ UNCHANGED << row, rawUrl, url, html, responseHeaders, finalUrl,
                  fetchError, caught, responseStatus, adjunctCaught, issued,
                  timer, adjunctTimer, allPlatformScores,
                  allPlatformSignalsMap, bestPlatform, bestPlatformScore,
                  jsSource, aiSignals, aiScore, ran, returned >>

OnRequestGet(u) ==
  /\ pc = "idle"
  /\ UNCHANGED << scoreVars, labelVars, bestVars, heurVars, batchVars, fanVars >>
  /\ u # <<>>
  /\ caller' = "detect"
  /\ row' = row
  /\ detectUrlCall(u)

\* the batch callback on a row whose URL cell is missing or blank
BatchRowEmpty(r) ==
  /\ pc = "idle"
  /\ UNCHANGED << scoreVars, labelVars, bestVars, heurVars, batchVars, fanVars >>
  /\ trim(IF urlColumn \in DOMAIN r THEN r[urlColumn] ELSE <<>>) = <<>>
  /\ caller' = "batch"
  /\ row' = r
  /\ returned' = Append(returned, withRow(emptyUrlResult, r))
  /\ pc' = "done"
  /\ UNCHANGED << rawUrl, url, html, responseHeaders, finalUrl, fetchError,
                  caught, responseStatus, adjunctCaught, issued, timer,
                  adjunctTimer, allPlatformScores, allPlatformSignalsMap,
                  bestPlatform, bestPlatformScore, jsSource, aiSignals,
                  aiScore, ran >>

BatchRow(r) ==
  /\ pc = "idle"
  /\ UNCHANGED << scoreVars, labelVars, bestVars, heurVars, batchVars, fanVars >>
  /\ trim(IF urlColumn \in DOMAIN r THEN r[urlColumn] ELSE <<>>) # <<>>
  /\ caller' = "batch"
  /\ row' = r
  /\ detectUrlCall(trim(r[urlColumn]))

\* the primary timer fires while the fetch is pending: controller.abort()
TimerFires ==
  /\ pc = "fetch" /\ timer = "armed"
  /\ UNCHANGED << scoreVars, labelVars, bestVars, heurVars, batchVars, fanVars >>
  /\ timer' = "fired"
  /\ UNCHANGED << caller, row, pc, rawUrl, url, html, responseHeaders,
                  finalUrl, fetchError, caught, responseStatus, adjunctCaught,
                  issued, adjunctTimer, allPlatformScores,
                  allPlatformSignalsMap, bestPlatform, bestPlatformScore,
                  jsSource, aiSignals, aiScore, ran, returned >>

\* the fetch resolves: the timer is cleared, the final URL and the headers
\* are kept, the body is awaited
FetchResolves(respUrl, status, headers) ==
  /\ pc = "fetch" /\ timer = "armed" /\ Answers(url)
  /\ UNCHANGED << scoreVars, labelVars, bestVars, heurVars, batchVars, fanVars >>
  /\ timer' = "cleared"
  /\ finalUrl' = IF respUrl # <<>> THEN respUrl ELSE url
  /\ responseHeaders' = [k \in {toLowerCase(n) : n \in DOMAIN headers} |-> headers[k]]
  /\ responseStatus' = status
  /\ pc' = "body"
  /\ UNCHANGED << caller, row, rawUrl, url, html, fetchError, caught,
                  adjunctCaught, issued, adjunctTimer, allPlatformScores,
                  allPlatformSignalsMap, bestPlatform, bestPlatformScore,
                  jsSource, aiSignals, aiScore, ran, returned >>

\* the fetch rejects: an invalid URL, an abort, or a network error
FetchRejects(err) ==
  /\ pc = "fetch"
  /\ UNCHANGED << scoreVars, labelVars, bestVars, heurVars, batchVars, fanVars >>
  /\ err = IF ~IsUrl(url) THEN InvalidUrlError
           ELSE IF timer = "fired" THEN AbortError ELSE err
  /\ timer' = "cleared"
  /\ catch(err, responseHeaders, finalUrl)
  /\ UNCHANGED << caller, row, rawUrl, url, html, responseHeaders, finalUrl,
                  responseStatus >>

\* response.text() resolves
BodyResolves(doc) ==
  /\ pc = "body"
  /\ UNCHANGED << scoreVars, labelVars, bestVars, heurVars, batchVars, fanVars >>
  /\ html' = doc
  /\ analyse(doc, responseHeaders, finalUrl)
  /\ UNCHANGED << caller, row, rawUrl, url, responseHeaders, finalUrl,
                  fetchError, caught, responseStatus, timer >>

\* response.text() rejects
BodyRejects(err) ==
  /\ pc = "body"
  /\ UNCHANGED << scoreVars, labelVars, bestVars, heurVars, batchVars, fanVars >>
  /\ catch(err, responseHeaders, finalUrl)
  /\ UNCHANGED << caller, row, rawUrl, url, html, responseHeaders, finalUrl,
                  responseStatus, timer >>

\* the adjunct fetch resolves: the body is awaited, the timer stays armed
AdjunctResolves ==
  /\ pc = "adjunct_fetch" /\ adjunctTimer = "armed"
  /\ UNCHANGED << scoreVars, labelVars, bestVars, heurVars, batchVars, fanVars >>
  /\ pc' = "adjunct_body"
  /\ UNCHANGED << caller, row, rawUrl, url, html, responseHeaders, finalUrl,
                  fetchError, caught, responseStatus, adjunctCaught, issued,
                  timer, adjunctTimer, allPlatformScores,
                  allPlatformSignalsMap, bestPlatform, bestPlatformScore,
                  jsSource, aiSignals, aiScore, ran, returned >>

\* the adjunct timer fires while the fetch or its body is pending
AdjunctTimerFires ==
  /\ pc \in {"adjunct_fetch", "adjunct_body"} /\ adjunctTimer = "armed"
  /\ UNCHANGED << scoreVars, labelVars, bestVars, heurVars, batchVars, fanVars >>
  /\ adjunctTimer' = "fired"
  /\ UNCHANGED << caller, row, pc, rawUrl, url, html, responseHeaders,
                  finalUrl, fetchError, caught, responseStatus, adjunctCaught,
                  issued, timer, allPlatformScores, allPlatformSignalsMap,
                  bestPlatform, bestPlatformScore, jsSource, aiSignals,
                  aiScore, ran, returned >>

\* resp.arrayBuffer() resolves: the first 300000 bytes are decoded
AdjunctBodyResolves(body) ==
  /\ pc = "adjunct_body" /\ adjunctTimer = "armed"
  /\ UNCHANGED << scoreVars, labelVars, bestVars, heurVars, batchVars, fanVars >>
  /\ adjunctTimer' = "cleared"
  /\ UNCHANGED << caller, row, rawUrl, url, html, responseHeaders, finalUrl,
                  fetchError, caught, responseStatus, adjunctCaught, issued,
                  timer, allPlatformScores, allPlatformSignalsMap,
                  bestPlatform, bestPlatformScore >>
  /\ finish(html, responseHeaders, finalUrl, sliceBytes(body, 300000))

\* the adjunct fetch or its body rejects (a network error, the abort): the
\* catch block drops the error and the heuristics run without a bundle
AdjunctRejects(err) ==
  /\ pc \in {"adjunct_fetch", "adjunct_body"}
  /\ UNCHANGED << scoreVars, labelVars, bestVars, heurVars, batchVars, fanVars >>
  /\ err = AbortError <=> adjunctTimer = "fired"
  /\ adjunctTimer' = "cleared"
  /\ adjunctCaught' = Append(adjunctCaught, err)
  /\ UNCHANGED << caller, row, rawUrl, url, html, responseHeaders, finalUrl,
                  fetchError, caught, responseStatus, issued, timer,
                  allPlatformScores, allPlatformSignalsMap, bestPlatform,
                  bestPlatformScore >>
  /\ finish(html, responseHeaders, finalUrl, jsSource)

Next ==
  \/ OnRequestGetMissing
  \/ \E u \in RawUrls : OnRequestGet(u)
  \/ \E r \in Rows : BatchRowEmpty(r)
  \/ \E r \in Rows : BatchRow(r)
  \/ TimerFires
  \/ \E respUrl \in ResponseUrls(url), resp \in Responses :
       FetchResolves(respUrl, resp.status, resp.headers)
  \/ \E err \in NetworkErrors \cup {AbortError, InvalidUrlError} : FetchRejects(err)
  \/ \E doc \in HtmlDocs : BodyResolves(doc)
  \/ \E err \in NetworkErrors : BodyRejects(err)
  \/ AdjunctResolves
  \/ AdjunctTimerFires
  \/ \E body \in JsBundles : AdjunctBodyResolves(body)
  \/ \E err \in AdjunctErrors \cup {AbortError} : AdjunctRejects(err)

Spec == Init /\ [][Next]_vars

(***************************************************************************)
(* Progress.  A fetch that was issued settles; the bundle's timer, armed   *)
(* until arrayBuffer() is done (lines 577-586), fires when nothing else    *)
(* happens, and the abort rejects what is pending.  The primary timer is   *)
(* cleared as soon as the fetch settles (lines 835-838): nothing in the    *)
(* code makes a pending response.text() end.                               *)
(***************************************************************************)
FetchSettles ==
  \/ \E respUrl \in ResponseUrls(url), resp \in Responses :
       FetchResolves(respUrl, resp.status, resp.headers)
  \/ \E err \in NetworkErrors \cup {AbortError, InvalidUrlError} : FetchRejects(err)

AdjunctFetchSettles ==
  /\ pc = "adjunct_fetch"
  /\ (AdjunctResolves \/ \E err \in AdjunctErrors \cup {AbortError} : AdjunctRejects(err))

SpecLive ==
  /\ Spec
  /\ WF_vars(FetchSettles)
  /\ WF_vars(AdjunctFetchSettles)
  /\ WF_vars(AdjunctTimerFires)
  /\ WF_vars(AdjunctRejects(AbortError))

(***************************************************************************)
(* The batch endpoint's fan-out (functions/api/batch.ts, lines 72-94):     *)
(* rows.map starts one callback per row, each callback awaits its own      *)
(* detectUrl, and Promise.all hands back the results in the rows' order.   *)
(* The steps of the rows' detections interleave freely.                    *)
(***************************************************************************)
MaxRows == 2

MAX_BATCH == 50

\* a request that is answered without any detection
neverTooLarge(n) == FALSE

\* line 60: rows.length > MAX_BATCH
tooLarge(n) == n > MAX_BATCH

Pending == [pending |-> TRUE]

IsPending(v) == DOMAIN v = {"pending"}

NoCall ==
  [pc |-> "done", rawUrl |-> <<>>, finalUrl |-> <<>>, responseHeaders |-> NoHeaders,
   html |-> <<>>]

Nothing ==
  [response |-> FALSE, finalUrl |-> <<>>, headers |-> NoHeaders, body |-> FALSE,
   html |-> <<>>, bundle |-> <<>>, error |-> ""]

\* the URL cell of a row, trimmed (line 74)
urlOf(r) == trim(IF urlColumn \in DOMAIN r THEN r[urlColumn] ELSE <<>>)

\* detectUrl's result from what it fetched (lines 859-911)
detection(rawU, finalU, headers, text, js) ==
  LET signalsMap == [p \in Platforms |->
                       detectPlatform(p, FINGERPRINTS[p], text, headers, finalU)]
      scores     == [p \in Platforms |-> scoreSignals(signalsMap[p])]
      best       == bestEntry(scores)
      ai         == aiHeuristicSignals(text, headers, finalU, js)
      aiS        == scoreSignals(ai)
  IN  successResult(rawU, finalU,
                    bucketDecision(best[1], best[2], signalsMap, aiS),
                    scores, aiS, ai)

\* Promise.all keeps the place of each promise: the value of the i-th
\* callback becomes the i-th result
settleInArrival(all, i, value) ==
  LET free == { k \in 1..Len(all) : IsPending(all[k]) }
      k    == CHOOSE k \in free : \A j \in free : k <= j
  IN  [all EXCEPT ![k] = value]

settle(all, i, value) == [all EXCEPT ![i] = value]

\* lines 710 and 734 match with new RegExp(pat.source, "gi"): the module's
\* own g-flagged objects are not used to match and keep their lastIndex
lastIndexAdvanced(li, text) == [a \in DOMAIN li |-> li[a] + Len(text) + 1]

lastIndexAfter(li, text) == li

BatchCells == { <<>>, << "example.com" >>, << "https://", "example.com" >> }

\* the requests: up to MaxRows rows, each with its line number and a URL cell
BatchRequests ==
  UNION { { [i \in 1..n |-> [k \in {"line", "url"} |->
                               IF k = "line" THEN << ToString(i) >> ELSE cells[i]]] :
              cells \in [1..n -> BatchCells] } :
          n \in 1..MaxRows }

BatchHeaders == { [k \in {"server-version"} |-> "1.2.3"] }

BatchDocs == { << "comments_nav_hero" >>, << "script_vite_bundle", "div_root" >> }

BatchBundles == { << "js_tutorial_comments" >> }

\* lines 58-93 up to the first await of every callback; a request of
\* MaxRows rows is never too large
OnRequestPost(rows) ==
  /\ batchRows = <<>>
  /\ ~tooLarge(Len(rows))
  /\ batchRows' = rows
  /\ det' = [i \in 1..Len(rows) |->
               IF urlOf(rows[i]) = <<>> THEN NoCall
               ELSE [pc |-> "fetch", rawUrl |-> urlOf(rows[i]),
                     finalUrl |-> normalizeUrl(urlOf(rows[i])),
                     responseHeaders |-> NoHeaders, html |-> <<>>]]
  /\ fetched' = [i \in 1..Len(rows) |-> Nothing]
  /\ results' = [i \in 1..Len(rows) |->
                   IF urlOf(rows[i]) = <<>> THEN withRow(emptyUrlResult, rows[i])
                   ELSE Pending]
  /\ UNCHANGED << batchStatus, lastIndex >>
  /\ UNCHANGED << pipelineVars, scoreVars, labelVars, bestVars, heurVars, fanVars >>

\* the end of row i's detectUrl and of its callback (lines 859-911, 91-92)
rowReturns(i, d, js) ==
  /\ det' = [det EXCEPT ![i] = [d EXCEPT !.pc = "done"]]
  /\ results' = settle(results, i,
                       withRow(detection(d.rawUrl, d.finalUrl, d.responseHeaders,
                                         d.html, js), batchRows[i]))
  /\ lastIndex' = lastIndexAfter(lastIndex, d.html)

\* row i's analysis (lines 859-873, 566-590): return, or fetch the bundle
rowAnalyse(i, d) ==
  IF scriptMatch(d.html) # null /\ jsUrlResolves(scriptMatch(d.html), d.finalUrl)
  THEN /\ det' = [det EXCEPT ![i] = [d EXCEPT !.pc = "adjunct"]]
       /\ UNCHANGED << results, lastIndex >>
  ELSE rowReturns(i, d, <<>>)

\* row i's catch block and test of fetchError (lines 844-857)
rowCatch(i, err) ==
  /\ fetched' = [fetched EXCEPT ![i].error = errorText(err)]
  /\ IF truthy(errorText(err))
     THEN /\ det' = [det EXCEPT ![i].pc = "done"]
          /\ results' = settle(results, i,
                               withRow(failureResult(det[i].rawUrl, det[i].finalUrl,
                                                     errorText(err)), batchRows[i]))
          /\ UNCHANGED lastIndex
     ELSE rowAnalyse(i, det[i])

RowFetchResolves(i, respUrl, headers) ==
  /\ i \in 1..Len(det) /\ det[i].pc = "fetch"
  /\ LET finalU == IF respUrl # <<>> THEN respUrl ELSE det[i].finalUrl
     IN  /\ det' = [det EXCEPT ![i] = [@ EXCEPT !.pc = "body", !.finalUrl = finalU,
                                                 !.responseHeaders = headers]]
         /\ fetched' = [fetched EXCEPT ![i] = [@ EXCEPT !.response = TRUE,
                                                         !.finalUrl = finalU,
                                                         !.headers = headers]]
  /\ UNCHANGED << batchRows, results, batchStatus, lastIndex >>
  /\ UNCHANGED << pipelineVars, scoreVars, labelVars, bestVars, heurVars, fanVars >>

RowFetchRejects(i, err) ==
  /\ i \in 1..Len(det) /\ det[i].pc = "fetch"
  /\ rowCatch(i, err)
  /\ UNCHANGED << batchRows, batchStatus >>
  /\ UNCHANGED << pipelineVars, scoreVars, labelVars, bestVars, heurVars, fanVars >>

RowBodyResolves(i, doc) ==
  /\ i \in 1..Len(det) /\ det[i].pc = "body"
  /\ fetched' = [fetched EXCEPT ![i] = [@ EXCEPT !.body = TRUE, !.html = doc]]
  /\ rowAnalyse(i, [det[i] EXCEPT !.html = doc])
  /\ UNCHANGED << batchRows, batchStatus >>
  /\ UNCHANGED << pipelineVars, scoreVars, labelVars, bestVars, heurVars, fanVars >>

RowBodyRejects(i, err) ==
  /\ i \in 1..Len(det) /\ det[i].pc = "body"
  /\ rowCatch(i, err)
  /\ UNCHANGED << batchRows, batchStatus >>
  /\ UNCHANGED << pipelineVars, scoreVars, labelVars, bestVars, heurVars, fanVars >>

\* the bundle of row i arrives (lines 580-583)
RowAdjunctResolves(i, body) ==
  /\ i \in 1..Len(det) /\ det[i].pc = "adjunct"
  /\ fetched' = [fetched EXCEPT ![i].bundle = sliceBytes(body, 300000)]
  /\ rowReturns(i, det[i], sliceBytes(body, 300000))
  /\ UNCHANGED << batchRows, batchStatus >>
  /\ UNCHANGED << pipelineVars, scoreVars, labelVars, bestVars, heurVars, fanVars >>

\* the bundle of row i fails (lines 587-589)
RowAdjunctRejects(i) ==
  /\ i \in 1..Len(det) /\ det[i].pc = "adjunct"
  /\ rowReturns(i, det[i], <<>>)
  /\ UNCHANGED << batchRows, fetched, batchStatus >>
  /\ UNCHANGED << pipelineVars, scoreVars, labelVars, bestVars, heurVars, fanVars >>

\* Promise.all resolves when every callback has returned (line 72)
PromiseAllResolves ==
  /\ batchRows # <<>> /\ batchStatus = 0
  /\ \A i \in 1..Len(results) : ~IsPending(results[i])
  /\ batchStatus' = 200
  /\ UNCHANGED << batchRows, det, fetched, results, lastIndex >>
  /\ UNCHANGED << pipelineVars, scoreVars, labelVars, bestVars, heurVars, fanVars >>

BatchNext ==
  \/ \E rows \in BatchRequests : OnRequestPost(rows)
  \/ \E i \in 1..MaxRows, headers \in BatchHeaders : RowFetchResolves(i, <<>>, headers)
  \/ \E i \in 1..MaxRows : RowFetchRejects(i, AbortError)
  \/ \E i \in 1..MaxRows, doc \in BatchDocs : RowBodyResolves(i, doc)
  \/ \E i \in 1..MaxRows, err \in AdjunctErrors : RowBodyRejects(i, err)
  \/ \E i \in 1..MaxRows, body \in BatchBundles : RowAdjunctResolves(i, body)
  \/ \E i \in 1..MaxRows : RowAdjunctRejects(i)
  \/ PromiseAllResolves

SpecBatch == Init /\ [][BatchNext]_vars

(***************************************************************************)
(* The size of a batch: the frontend cuts the CSV into chunks and uploads  *)
(* them one after the other (public/app.js, lines 249-291, 432-436); the   *)
(* endpoint refuses a request of more than MAX_BATCH rows before it starts *)
(* any detection (batch.ts, lines 58-66).  Rows are counted, not named.    *)
(***************************************************************************)
BATCH_CHUNK_SIZE == 50

\* the largest CSV and the largest request
MaxCsvRows == 101

\* the sizes of the slices arr.slice(i, i + size), i = 0, size, 2 size, ...
RECURSIVE chunkArray(_, _)
chunkArray(n, size) ==
  IF n <= 0 THEN <<>>
  ELSE << Min(n, size) >> \o chunkArray(n - Min(n, size), size)

\* the endpoint on a request of k rows: 413, or one detection started per row
handle(k) ==
  /\ requestRows' = k
  /\ IF tooLarge(k)
     THEN answer' = 413 /\ started' = 0 /\ inFlight' = 0
     ELSE answer' = 0 /\ started' = k /\ inFlight' = k

\* the click on Run with a CSV of n rows (lines 249-268)
RunBatch(n) ==
  /\ allRows = 0 /\ requestRows = 0
  /\ allRows' = n
  /\ chunks' = chunkArray(n, BATCH_CHUNK_SIZE)
  /\ UNCHANGED << requestRows, answer, started, inFlight >>
  /\ UNCHANGED << pipelineVars, scoreVars, labelVars, bestVars, heurVars, batchVars >>

\* the frontend uploads the next chunk (lines 271-277)
Upload ==
  /\ chunks # <<>> /\ requestRows = 0
  /\ handle(Head(chunks))
  /\ UNCHANGED << allRows, chunks >>
  /\ UNCHANGED << pipelineVars, scoreVars, labelVars, bestVars, heurVars, batchVars >>

\* another client posts k URLs as JSON (batch.ts, lines 44-56)
PostUrls(k) ==
  /\ allRows = 0 /\ requestRows = 0
  /\ handle(k)
  /\ UNCHANGED << allRows, chunks >>
  /\ UNCHANGED << pipelineVars, scoreVars, labelVars, bestVars, heurVars, batchVars >>

\* one of the request's detections returns
DetectionReturns ==
  /\ inFlight > 0
  /\ inFlight' = inFlight - 1
  /\ UNCHANGED << allRows, chunks, requestRows, answer, started >>
  /\ UNCHANGED << pipelineVars, scoreVars, labelVars, bestVars, heurVars, batchVars >>

\* Promise.all has resolved: the endpoint answers (lines 96-131)
Respond ==
  /\ requestRows > 0 /\ answer = 0 /\ inFlight = 0
  /\ answer' = 200
  /\ UNCHANGED << allRows, chunks, requestRows, started, inFlight >>
  /\ UNCHANGED << pipelineVars, scoreVars, labelVars, bestVars, heurVars, batchVars >>

\* the frontend reads the answer and goes on, or stops on an error
\* (lines 278-296)
Received ==
  /\ chunks # <<>> /\ answer # 0
  /\ chunks' = IF answer = 200 THEN Tail(chunks) ELSE <<>>
  /\ requestRows' = 0 /\ answer' = 0 /\ started' = 0
  /\ UNCHANGED << allRows, inFlight >>
  /\ UNCHANGED << pipelineVars, scoreVars, labelVars, bestVars, heurVars, batchVars >>

FanNext ==
  \/ \E n \in 1..MaxCsvRows : RunBatch(n)
  \/ Upload
  \/ \E k \in 1..MaxCsvRows : PostUrls(k)
  \/ DetectionReturns
  \/ Respond
  \/ Received

SpecFanOut == Init /\ [][FanNext]_vars

(***************************************************************************)
(* scoreSignals on its own: a signal list grows and is reordered, and the  *)
(* score is taken after every change.                                      *)
(***************************************************************************)
ScoreCategories == << "html_comment", "cdn_url" >>

ScoreConfidences == {"high", "medium", "low", "unknown"}

ScoreSignals ==
  { Signal(ScoreCategories[c], k, "", Str("p_hello")) :
      c \in 1..Len(ScoreCategories), k \in ScoreConfidences }

swap(s, i) ==
  [j \in 1..Len(s) |-> IF j = i THEN s[i + 1] ELSE IF j = i + 1 THEN s[i] ELSE s[j]]

PushSignal(x) ==
  /\ Len(sigList) < MaxSignals
  /\ sigList' = Append(sigList, x)
  /\ total' = scoreSignals(sigList')
  /\ UNCHANGED << pipelineVars, labelVars, bestVars, heurVars, batchVars, fanVars >>

SwapSignals(i) ==
  /\ i < Len(sigList)
  /\ sigList' = swap(sigList, i)
  /\ total' = scoreSignals(sigList')
  /\ UNCHANGED << pipelineVars, labelVars, bestVars, heurVars, batchVars, fanVars >>

ScoreNext ==
  \/ \E x \in ScoreSignals : PushSignal(x)
  \/ \E i \in 1..MaxSignals : SwapSignals(i)

SpecScore == Init /\ [][ScoreNext]_vars

(***************************************************************************)
(* confidenceLabel on its own: every score against both thresholds.        *)
(***************************************************************************)
LabelScore(s, T) ==
  /\ labelScore' = s
  /\ labelMin' = T
  /\ label' = confidenceLabel(s, T)
  /\ UNCHANGED << pipelineVars, scoreVars, bestVars, heurVars, batchVars, fanVars >>

LabelNext ==
  \E s \in 0..MaxScore, T \in {MIN_PLATFORM_SCORE, MIN_AI_SCORE} : LabelScore(s, T)

SpecLabel == Init /\ [][LabelNext]_vars

(***************************************************************************)
(* detectAiHeuristics and scoreSignals on their own (lines 592-805, 873-    *)
(* 874): the heuristics run once on a page, its headers, its final URL and *)
(* the bundle that was read, and the signals are scored.                   *)
(***************************************************************************)
HeurVocabulary ==
  << "comments_nav_hero", "ai_landing_section", "script_vite_bundle", "div_root",
     "meta_generator_durable", "ai_full_page" >>

HeurDocs ==
  UNION { { [i \in 1..n |-> HeurVocabulary[f[i]]] :
              f \in { g \in [1..n -> 1..Len(HeurVocabulary)] :
                        \A i \in 1..(n - 1) : g[i] <= g[i + 1] } } :
          n \in 0..MaxHtmlLen }

HeurUrls == { << "https://", "example.com" >>, << "http://", "app.vercel.app" >> }

Heuristics(text, headers, finalU, js) ==
  /\ ~heurInput.run
  /\ heurInput' = [text |-> text, headers |-> headers, finalUrl |-> finalU,
                   js |-> js, run |-> TRUE]
  /\ heurSignals' = aiHeuristicSignals(text, headers, finalU, js)
  /\ heurScore' = scoreSignals(heurSignals')
  /\ UNCHANGED << pipelineVars, scoreVars, labelVars, bestVars, batchVars, fanVars >>

HeurNext ==
  \E text \in HeurDocs, headers \in HeaderSets, finalU \in HeurUrls, js \in JsBundles :
    Heuristics(text, headers, finalU, js)

SpecAi == Init /\ [][HeurNext]_vars

(***************************************************************************)
(* The choice of the best platform on its own (lines 863-870, 885-890):    *)
(* one platform's score changes, the table is sorted and the decision      *)
(* taken again.                                                            *)
(***************************************************************************)
decide(best) == bucketDecision(best[1], best[2], NoScores, 0)

\* another signal of platform p is found: its score rises by a step
PlatformScored(p) ==
  /\ scoreTable[p] + MIN_PLATFORM_SCORE \in TieScores
  /\ scoreTable' = [scoreTable EXCEPT ![p] = @ + MIN_PLATFORM_SCORE]
  /\ verdict' = decide(bestEntry(scoreTable'))
  /\ UNCHANGED << pipelineVars, scoreVars, labelVars, heurVars, batchVars, fanVars >>

BestNext == \E p \in Platforms : PlatformScored(p)

SpecBest == Init /\ [][BestNext]_vars

(***************************************************************************)
(* The properties.                                                         *)
(***************************************************************************)
Results == { returned[i] : i \in 1..Len(returned) }

Buckets == {"platform-assisted", "ai-assisted", "no-ai-signals", "unknown"}

\* every score and signal field at its zero or empty default
Defaults(r) ==
  /\ r.bucket = "unknown" /\ r.bucketConfidence = "none"
  /\ r.platform = null /\ r.platformScore = 0 /\ r.platformSignals = <<>>
  /\ r.allPlatformScores = NoScores
  /\ r.aiScore = 0 /\ r.aiSignals = <<>>

\* the highest score of a result's table
TopScore(r) ==
  CHOOSE m \in { r.allPlatformScores[p] : p \in DOMAIN r.allPlatformScores } :
    \A p \in DOMAIN r.allPlatformScores : r.allPlatformScores[p] <= m

\* C1: once the primary fetch or the reading of its body has thrown, whatever
\* the value thrown, detectUrl returns the unknown result with every score at
\* its default and a non-null error, and neither detector has run.
C1_FetchFailureShortCircuits ==
  (caught # <<>> /\ pc = "done") =>
     /\ Len(returned) = 1
     /\ Defaults(returned[1])
     /\ returned[1].error # null
     /\ ran = {}

\* C2: in every result handed back, by detectUrl or by the batch endpoint, a
\* non-null error comes with the unknown bucket and every score and signal
\* field at its default, and the unknown bucket comes only with a non-null error.
C2_ErrorIffUnknown ==
  \A r \in Results :
    /\ r.error # null => Defaults(r)
    /\ r.bucket = "unknown" => r.error # null

C2_Witness ==
  \E r \in Results :
    /\ r.error # null /\ r.bucket = "unknown"
    /\ caught # <<>> /\ caller = "batch" /\ "originalRow" \in DOMAIN r

\* C3: after a successful fetch a best platform score of 5 or more gives the
\* bucket platform-assisted, whatever the AI score.
C3_PlatformTakesPrecedence ==
  \A r \in Results :
    (r.error = null /\ TopScore(r) >= 5) =>
       /\ r.bucket = "platform-assisted"
       /\ r.bucket # "ai-assisted"

C3_Witness ==
  \E r \in Results :
    /\ r.error = null /\ TopScore(r) >= 5 /\ r.aiScore >= 10
    /\ r.bucket = "platform-assisted"

\* C4: after a successful fetch with a best platform score below 5 the bucket
\* is ai-assisted, labelled by confidenceLabel(aiScore, 10), exactly when the
\* AI score is 10 or more, and no-ai-signals with confidence none otherwise;
\* every result carries exactly one of the four buckets.
C4_AiFallback ==
  \A r \in Results :
    /\ r.bucket \in Buckets
    /\ (r.error = null /\ TopScore(r) < 5) =>
         /\ r.aiScore >= 10 <=> r.bucket = "ai-assisted"
         /\ r.aiScore >= 10 => r.bucketConfidence = confidenceLabel(r.aiScore, 10)
         /\ r.aiScore < 10 => (r.bucket = "no-ai-signals" /\ r.bucketConfidence = "none")

C4_Witness ==
  \E r \in Results :
    /\ r.error = null /\ TopScore(r) < 5 /\ r.aiScore = 10
    /\ r.bucket = "ai-assisted" /\ r.bucketConfidence = "low"

LabelRank(l) ==
  CASE l = "none" -> 0 [] l = "low" -> 1 [] l = "medium" -> 2 [] l = "high" -> 3

LabelRight ==
  /\ label = "high" <=> labelScore >= 3 * labelMin
  /\ label = "medium" <=> (2 * labelScore >= 3 * labelMin /\ labelScore < 3 * labelMin)
  /\ label = "low" <=> (labelScore >= labelMin /\ 2 * labelScore < 3 * labelMin)
  /\ label = "none" <=> labelScore < labelMin

\* C5: confidenceLabel(score, T) is high from 3T, medium from 1.5T up to 3T,
\* low from T up to 1.5T and none below T, and for a fixed T a higher score
\* never gets a lower label (none < low < medium < high).
C5_LabelThresholds ==
  [][ /\ LabelRight'
      /\ (labelMin' = labelMin /\ labelScore' >= labelScore) =>
           LabelRank(label') >= LabelRank(label) ]_vars

C5_Witness == labelMin = 10 /\ labelScore = 30 /\ label = "high"

\* C6: the score of a signal list is never negative, is the same whenever it
\* is taken again and in whatever order the signals come, and never drops
\* when a signal is appended.
C6_ScoreMonotone ==
  [][ /\ total' >= 0
      /\ total' = scoreSignals(sigList')
      /\ (Len(sigList') = Len(sigList) + 1 /\ Front(sigList') = sigList) => total' >= total
      /\ (\E i \in 1..(Len(sigList) - 1) : sigList' = swap(sigList, i)) => total' = total
    ]_vars

C6_Witness ==
  /\ Len(sigList) = MaxSignals
  /\ \E i \in 1..Len(sigList) : sigList[i].confidence = "unknown"
  /\ \E i \in 1..(Len(sigList) - 1) : sigList[i].category # sigList[i + 1].category
  /\ total > 0

\* the weight the statement gives each confidence
StatedWeight(k) ==
  CASE k = "high" -> 10 [] k = "medium" -> 5 [] k = "low" -> 2 [] OTHER -> 1

\* the weights of the signals of category c, summed
RECURSIVE CategoryWeight(_, _)
CategoryWeight(s, c) ==
  IF s = <<>> THEN 0
  ELSE CategoryWeight(Front(s), c)
         + (IF Last(s).category = c THEN StatedWeight(Last(s).confidence) ELSE 0)

Capped(w) == IF w >= 15 THEN 15 ELSE w

RECURSIVE SumCapped(_, _)
SumCapped(s, cats) ==
  IF cats = <<>> THEN 0
  ELSE SumCapped(s, Front(cats)) + Capped(CategoryWeight(s, Last(cats)))

\* C7: a category whose weights sum to W adds min(W, 15) to the score, 15
\* whenever W is 15 or more, and the score is the sum of these capped
\* subtotals over the categories.
C7_CategoryCap == total = SumCapped(sigList, ScoreCategories)

C7_Witness ==
  /\ CategoryWeight(sigList, "html_comment") > 15
  /\ CategoryWeight(sigList, "cdn_url") \in 1..14
  /\ \E i \in 1..Len(sigList) :
       sigList[i].category = "html_comment" /\ sigList[i].confidence = "low"
  /\ total = 15 + CategoryWeight(sigList, "cdn_url")

\* C8: a result carries a platform, a platform score or platform signals only
\* in the bucket platform-assisted, and there the platform names a
\* fingerprint, the signals are that fingerprint's own, and the score is the
\* platform's entry of allPlatformScores, the highest of the table, 5 or more.
C8_PlatformFields ==
  \A r \in Results :
    /\ (r.platform # null \/ r.platformScore # 0 \/ r.platformSignals # <<>>) =>
         r.bucket = "platform-assisted"
    /\ r.bucket = "platform-assisted" =>
         /\ r.platform \in DOMAIN FINGERPRINTS
         /\ r.platformSignals = allPlatformSignalsMap[r.platform]
         /\ r.platformSignals =
              detectPlatform(r.platform, FINGERPRINTS[r.platform], html,
                             responseHeaders, finalUrl)
         /\ r.platformScore = r.allPlatformScores[r.platform]
         /\ r.platformScore = TopScore(r)
         /\ r.platformScore >= 5

C8_Witness ==
  \E r \in Results :
    /\ r.bucket = "platform-assisted" /\ r.platformSignals # <<>>
    /\ \E p \in DOMAIN r.allPlatformScores :
         p # r.platform /\ r.allPlatformScores[p] > 0
                        /\ r.allPlatformScores[p] < r.platformScore

\* C9: whenever the primary fetch succeeded the AI heuristics have run, and
\* the result carries their whole output and its score, in every bucket.
C9_AiSignalsAlwaysReturned ==
  \A r \in Results :
    r.error = null =>
      /\ "ai" \in ran
      /\ r.aiSignals = aiSignals
      /\ r.aiSignals = aiHeuristicSignals(html, responseHeaders, finalUrl, jsSource)
      /\ r.aiScore = scoreSignals(r.aiSignals)

C9_Witness ==
  \E r \in Results :
    /\ r.error = null /\ r.bucket = "platform-assisted"
    /\ r.aiSignals # <<>> /\ r.aiScore > 0

DeclaredOrder ==
  << "Framer", "Webflow", "Bolt", "v0 (Vercel)", "Wix", "Lovable", "Squarespace",
     "GitHub Pages", "Cursor AI" >>

TopOfTable ==
  CHOOSE m \in TieScores :
    /\ \A p \in Platforms : scoreTable[p] <= m
    /\ \E p \in Platforms : scoreTable[p] = m

FirstAtTop ==
  DeclaredOrder[CHOOSE i \in 1..Len(DeclaredOrder) :
                  /\ scoreTable[DeclaredOrder[i]] = TopOfTable
                  /\ \A j \in 1..(i - 1) : scoreTable[DeclaredOrder[j]] # TopOfTable]

\* C10: when the highest platform score is 5 or more, the platform reported
\* is the first of the declared order that has it, however the scores are
\* spread over the platforms.
C10_FirstDeclaredWinsTie ==
  TopOfTable >= 5 =>
    /\ verdict.bucket = "platform-assisted"
    /\ verdict.platform = FirstAtTop
    /\ verdict.platformScore = TopOfTable

C10_Witness ==
  /\ scoreTable["Framer"] = 5
  /\ scoreTable["Webflow"] = 10 /\ scoreTable["Wix"] = 10 /\ scoreTable["Cursor AI"] = 10
  /\ verdict.platform = "Webflow"

\* how many times a fetch was issued
RECURSIVE Count(_, _)
Count(s, x) ==
  IF s = <<>> THEN 0 ELSE Count(Front(s), x) + (IF Last(s) = x THEN 1 ELSE 0)

\* detectUrl has been called
Called == pc \in {"fetch", "body", "adjunct_fetch", "adjunct_body"}
            \/ (pc = "done" /\ rawUrl # <<>>)

\* the HTML names a script under /assets/ that ends in .js
NamesBundle == \E i \in 1..Len(html) : html[i] = "script_vite_bundle"

\* C11: a detection issues the primary fetch exactly once and the bundle's
\* fetch at most once; the bundle's fetch comes after the primary fetch and
\* the body read succeeded, and only when the HTML names a /assets/ script;
\* no fetch is issued again after a failure.
C11_FetchesIssuedOnce ==
  /\ Called => Count(issued, "primary") = 1
  /\ ~Called => issued = <<>>
  /\ Count(issued, "adjunct") <= 1
  /\ Count(issued, "adjunct") = 1 =>
       /\ issued = << "primary", "adjunct" >>
       /\ caught = <<>> /\ fetchError = null /\ timer = "cleared"
       /\ NamesBundle
  /\ (caught # <<>> \/ adjunctCaught # <<>>) => Len(caught) + Len(adjunctCaught) = 1
  /\ adjunctCaught # <<>> => (pc = "done" /\ issued = << "primary", "adjunct" >>)
  /\ (caught # <<>> /\ fetchError # "") => (pc = "done" /\ issued = << "primary" >>)

C11_Witness ==
  /\ pc = "done" /\ adjunctCaught # <<>>
  /\ issued = << "primary", "adjunct" >>
  /\ returned # <<>>

\* a step taken while the bundle is awaited
BundleStepFrame ==
  pc \in {"adjunct_fetch", "adjunct_body"} =>
    /\ allPlatformScores' = allPlatformScores
    /\ allPlatformSignalsMap' = allPlatformSignalsMap
    /\ << html', responseHeaders', finalUrl' >> = << html, responseHeaders, finalUrl >>
    /\ pc' = "done" =>
         LET r == returned'[Len(returned')]
         IN  /\ r.allPlatformScores = allPlatformScores
             /\ r.error = null
             /\ bestPlatformScore >= 5 =>
                  /\ r.bucket = "platform-assisted"
                  /\ r.platform = bestPlatform
                  /\ r.platformScore = bestPlatformScore
                  /\ r.platformSignals = allPlatformSignalsMap[bestPlatform]
             /\ bestPlatformScore < 5 =>
                  /\ r.bucket \in {"ai-assisted", "no-ai-signals"}
                  /\ r.platformSignals = <<>>
                  /\ r.platform = null /\ r.platformScore = 0

\* C12: for the same final URL, headers and HTML, whatever the bundle's fetch
\* gives, the platform scores and signal lists stay what they were; only the
\* AI signals and score depend on it, and the bucket only between ai-assisted
\* and no-ai-signals, when the best platform score is below 5.
C12_BundleLeavesPlatformAlone == [][BundleStepFrame]_vars

C12_Witness ==
  /\ pc = "done" /\ jsSource # <<>> /\ bestPlatformScore < 5
  /\ aiSignals # aiHeuristicSignals(html, responseHeaders, finalUrl, <<>>)
  /\ scoreSignals(aiHeuristicSignals(html, responseHeaders, finalUrl, <<>>)) < 10
  /\ \E r \in Results : r.bucket = "ai-assisted"

\* C13: when the primary fetch succeeded and the bundle's fetch failed, by a
\* network error, the abort or a body read error, the detection ends with a
\* null error and a bucket other than unknown, and its AI signals are those
\* of the HTML with an empty bundle.
C13_BundleFailureAbsorbed ==
  (adjunctCaught # <<>>) =>
     /\ pc = "done" /\ Len(returned) = 1
     /\ returned[1].error = null
     /\ returned[1].bucket \in Buckets \ {"unknown"}
     /\ returned[1].aiSignals = aiHeuristicSignals(html, responseHeaders, finalUrl, <<>>)
     /\ jsSource = <<>>

C13_Witness ==
  /\ adjunctCaught = << AbortError >> /\ pc = "done"
  /\ \E r \in Results : r.error = null /\ r.aiSignals # <<>>

\* C14: while a retrieval is pending, from the request to the delivery of
\* the body, its timer is armed or has fired, so that a response that stalls
\* at any stage is aborted when the timer fires.
C14_PendingRetrievalHasTimer ==
  /\ pc \in {"fetch", "body"} => timer \in {"armed", "fired"}
  /\ pc \in {"adjunct_fetch", "adjunct_body"} => adjunctTimer \in {"armed", "fired"}

\* the scores of every fingerprint on the stored HTML, headers and final URL
ScoresOfArtifacts ==
  [p \in Platforms |->
     scoreSignals(detectPlatform(p, FINGERPRINTS[p], html, responseHeaders, finalUrl))]

\* C15: a primary response whose body was read is analysed whatever its
\* status code: the error is null, the bucket is one of platform-assisted,
\* ai-assisted and no-ai-signals, and the scores are those of its body and
\* headers.
C15_StatusNotAnError ==
  (pc = "done" /\ caught = <<>> /\ responseStatus # 0) =>
     /\ Len(returned) = 1
     /\ returned[1].error = null
     /\ returned[1].bucket \in {"platform-assisted", "ai-assisted", "no-ai-signals"}
     /\ returned[1].aiScore =
          scoreSignals(aiHeuristicSignals(html, responseHeaders, finalUrl, jsSource))
     /\ responseStatus >= 400 => returned[1].allPlatformScores = ScoresOfArtifacts

C15_Witness ==
  /\ pc = "done" /\ caught = <<>> /\ responseStatus = 503
  /\ \E r \in Results : r.error = null /\ r.bucket = "platform-assisted" /\ r.platform = "Wix"

\* an input that carries a scheme
HasScheme(t) == t # <<>> /\ Head(t) \in {"http://", "https://", "HTTP://"}

\* C16: detectUrl puts https:// before the trimmed input exactly when the
\* input carries no scheme, fetches an input with a scheme unchanged, and
\* returns the raw input as the result's url.
C16_SchemeAddedOnlyWhenMissing ==
  Called =>
    /\ HasScheme(trim(rawUrl)) => url = trim(rawUrl)
    /\ ~HasScheme(trim(rawUrl)) => url = << "https://" >> \o trim(rawUrl)
    /\ \A r \in Results : r.url = rawUrl

\* the signals of every fingerprint and of the AI heuristics
MatchedValues ==
  UNION { { allPlatformSignalsMap[p][i].matchedValue :
              i \in 1..Len(allPlatformSignalsMap[p]) } :
          p \in DOMAIN allPlatformSignalsMap }
    \cup { aiSignals[i].matchedValue : i \in 1..Len(aiSignals) }

\* C17: the matchedValue of every signal, of the platform matcher and of the
\* AI heuristics, in every category, is at most 120 characters long.
C17_MatchedValueBounded == \A v \in MatchedValues : v.len <= 120

OnWebflowHost == extractHostname(finalUrl) = "shop.webflow.io"

HasWebflowGenerator == \E i \in 1..Len(html) : html[i] = "meta_generator_webflow"

\* C18, as stated: a page on a .webflow.io host whose HTML holds the Webflow
\* generator meta tag is reported as Webflow, platform-assisted, high.
C18_WebflowScenario ==
  \A r \in Results :
    (r.error = null /\ OnWebflowHost /\ HasWebflowGenerator) =>
       /\ r.platform = "Webflow"
       /\ r.bucket = "platform-assisted"
       /\ r.bucketConfidence = "high"

\* C18: a page on a .webflow.io host whose HTML holds the Webflow generator
\* meta tag, and on which every other fingerprint scores below 20, is
\* reported as Webflow, platform-assisted, high, whatever the AI score.
C18_WebflowScenarioUnrivalled ==
  \A r \in Results :
    (/\ r.error = null /\ OnWebflowHost /\ HasWebflowGenerator
     /\ \A p \in DOMAIN r.allPlatformScores \ {"Webflow"} : r.allPlatformScores[p] < 20) =>
       /\ r.platform = "Webflow"
       /\ r.bucket = "platform-assisted"
       /\ r.bucketConfidence = "high"
       /\ r.platformScore >= 20

C18_Witness ==
  \E r \in Results :
    /\ r.error = null /\ OnWebflowHost /\ HasWebflowGenerator
    /\ r.platform = "Webflow" /\ r.platformScore = 20 /\ r.bucketConfidence = "high"
    /\ r.aiScore >= 10
    /\ \E p \in DOMAIN r.allPlatformScores \ {"Webflow"} : r.allPlatformScores[p] > 0

\* no fingerprint and no heuristic other than the two hosting rules fired
NothingElseFired(r) ==
  /\ \A p \in DOMAIN r.allPlatformScores : r.allPlatformScores[p] = 0
  /\ \A i \in 1..Len(r.aiSignals) :
       r.aiSignals[i].category \in {"prototype_hosting", "hosting_platform"}

\* C19: a page whose final host ends in .vercel.app and that triggers nothing
\* else, with or without Vercel or Netlify headers, has exactly one AI
\* signal, prototype_hosting at medium, an AI score of 5 and the bucket
\* no-ai-signals.
C19_VercelAppAlone ==
  \A r \in Results :
    (r.error = null /\ extractHostname(finalUrl) = "app.vercel.app" /\ NothingElseFired(r)) =>
       /\ Len(r.aiSignals) = 1
       /\ r.aiSignals[1].category = "prototype_hosting"
       /\ r.aiSignals[1].confidence = "medium"
       /\ r.aiScore = 5
       /\ r.bucket = "no-ai-signals"

C19_Witness ==
  \E r \in Results :
    /\ r.error = null /\ extractHostname(finalUrl) = "app.vercel.app"
    /\ NothingElseFired(r)
    /\ "x-nf-request-id" \in DOMAIN responseHeaders
    /\ "x-vercel-cache" \in DOMAIN responseHeaders
    /\ Len(r.aiSignals) = 1 /\ r.bucket = "no-ai-signals"

\* a header of the set is present and not empty
Carries(names) ==
  \E k \in names \cap DOMAIN responseHeaders : responseHeaders[k] # ""

HasSignal(r, category, description) ==
  \E i \in 1..Len(r.aiSignals) :
    /\ r.aiSignals[i].category = category
    /\ description \in {"", r.aiSignals[i].description}

\* C20: no result has both a prototype_hosting and a hosting_platform signal,
\* and when the prototype rule did not fire, a non-empty x-vercel-id or
\* x-vercel-cache header gives a low hosting_platform signal for Vercel and
\* a non-empty x-nf-request-id or x-netlify header one for Netlify.
C20_HostingHeaderSignal ==
  \A r \in Results :
    r.error = null =>
      /\ ~(HasSignal(r, "prototype_hosting", "") /\ HasSignal(r, "hosting_platform", ""))
      /\ (~HasSignal(r, "prototype_hosting", "") /\ Carries({"x-vercel-id", "x-vercel-cache"})) =>
           HasSignal(r, "hosting_platform", "Hosted on Vercel")
      /\ (~HasSignal(r, "prototype_hosting", "") /\ Carries({"x-nf-request-id", "x-netlify"})) =>
           HasSignal(r, "hosting_platform", "Hosted on Netlify")
      /\ \A i \in 1..Len(r.aiSignals) :
           r.aiSignals[i].category = "hosting_platform" => r.aiSignals[i].confidence = "low"

\* the fragments that hold a bundler output file name, and the SPA roots
HasBundlerName == \E i \in 1..Len(html) : html[i] = "script_vite_bundle"

HasSpaRoot == \E i \in 1..Len(html) : html[i] = "div_root"

ViteSignals(r) == SelectSeq(r.aiSignals, LAMBDA s : s.category = "vite_build")

\* C24: the build-tool heuristic emits exactly one vite_build signal when a
\* bundler file name occurs in the HTML, medium if an SPA root marker is
\* there too and low otherwise; with no bundler file name it emits nothing,
\* SPA root or not.
C24_BuildToolSignal ==
  \A r \in Results :
    r.error = null =>
      IF HasBundlerName
      THEN /\ Len(ViteSignals(r)) = 1
           /\ ViteSignals(r)[1].confidence = (IF HasSpaRoot THEN "medium" ELSE "low")
      ELSE ViteSignals(r) = <<>>

C24_Witness ==
  \E r \in Results :
    /\ r.error = null /\ HasBundlerName /\ HasSpaRoot
    /\ Len(ViteSignals(r)) = 1 /\ ViteSignals(r)[1].confidence = "medium"

TagPatterns ==
  << "<script[^>]+src=[\"']([^\"']+)[\"']",
     "<link[^>]+href=[\"']([^\"']+)[\"']",
     "<img[^>]+src=[\"']([^\"']+)[\"']" >>

\* the script, link and img tags of the HTML that carry a URL
TagOccurrences ==
  Len(TagSrcs(TagPatterns[1], html)) + Len(TagSrcs(TagPatterns[2], html))
    + Len(TagSrcs(TagPatterns[3], html))

CdnSignals(p) == SelectSeq(allPlatformSignalsMap[p], LAMBDA s : s.category = "cdn_url")

OtherSignals(p) == SelectSeq(allPlatformSignalsMap[p], LAMBDA s : s.category # "cdn_url")

\* the signal is the one of the first entry of a list that matches its URL
FirstMatchOf(s, list) ==
  \E i \in 1..Len(list) :
    /\ Test(list[i][1], s.matchedValue.text)
    /\ \A j \in 1..(i - 1) : ~Test(list[j][1], s.matchedValue.text)
    /\ s.confidence = list[i][2] /\ s.description = list[i][3]

\* C25: for one fingerprint the script, link and img tags give at most one
\* signal each, the one of the first pattern that matches the tag's URL, all
\* in the category cdn_url, so together they add at most 15 to the
\* platform's score, however many tags match.
C25_TagSourcesCapped ==
  \A p \in DOMAIN allPlatformSignalsMap :
    /\ Len(CdnSignals(p)) <= TagOccurrences
    /\ \A i \in 1..Len(CdnSignals(p)) :
         \E k \in {"script_src", "link_href", "img_src"} \cap DOMAIN FINGERPRINTS[p] :
           FirstMatchOf(CdnSignals(p)[i], FINGERPRINTS[p][k])
    /\ \A i \in 1..Len(allPlatformSignalsMap[p]) :
         allPlatformSignalsMap[p][i].category \notin {"script_src", "link_href", "img_src"}
    /\ allPlatformScores[p] - scoreSignals(OtherSignals(p)) <= CATEGORY_CAP

C25_Witness ==
  \E p \in DOMAIN allPlatformSignalsMap :
    /\ Len(CdnSignals(p)) = 2
    /\ CdnSignals(p)[1].confidence = "high" /\ CdnSignals(p)[2].confidence = "high"
    /\ allPlatformScores[p] - scoreSignals(OtherSignals(p)) = CATEGORY_CAP
    /\ pc = "done"

CarriesServerVersion ==
  "server-version" \in DOMAIN responseHeaders /\ responseHeaders["server-version"] # ""

IsServerVersionSignal(s) ==
  /\ s.category = "http_header" /\ s.confidence = "high"
  /\ s.description = "Bolt server-version header"

\* the server-version signal is the only platform signal of the page
OnlyServerVersion ==
  \A p \in DOMAIN allPlatformSignalsMap :
    Len(allPlatformSignalsMap[p]) = (IF p = "Bolt" THEN 1 ELSE 0)

\* C26: a fetched response with a non-empty server-version header gives a
\* high http_header signal to the Bolt fingerprint and to no other; with no
\* other platform signal the result is platform-assisted, Bolt, score 10,
\* confidence medium, whatever the AI score.
C26_ServerVersionMeansBolt ==
  \A r \in Results :
    (r.error = null /\ CarriesServerVersion) =>
      /\ \A p \in DOMAIN allPlatformSignalsMap :
           Len(SelectSeq(allPlatformSignalsMap[p], IsServerVersionSignal))
             = (IF p = "Bolt" THEN 1 ELSE 0)
      /\ OnlyServerVersion =>
           /\ r.bucket = "platform-assisted" /\ r.platform = "Bolt"
           /\ r.platformScore = 10 /\ r.bucketConfidence = "medium"
           /\ Len(r.platformSignals) = 1 /\ IsServerVersionSignal(r.platformSignals[1])

C26_Witness ==
  \E r \in Results :
    /\ r.error = null /\ CarriesServerVersion /\ OnlyServerVersion
    /\ r.platform = "Bolt" /\ r.platformScore = 10
    /\ r.aiScore >= MIN_AI_SCORE

\* the signals a fingerprint can fire at most: one for each of its entries
EntryWeights(fp) ==
  [k \in DOMAIN fp |-> [i \in 1..Len(fp[k]) |-> confidenceWeight(fp[k][i][2])]]

\* C28: Cursor AI is never the reported platform: its fingerprint holds one
\* low entry in each of two categories, so it scores at most 4, below the
\* platform threshold; and a platform whose only fired signal is one low
\* signal is never reported as platform-assisted.
C28_CursorNeverReported ==
  /\ DOMAIN FINGERPRINTS["Cursor AI"] = {"html_comment", "meta_tag"}
  /\ \A k \in DOMAIN FINGERPRINTS["Cursor AI"] :
       EntryWeights(FINGERPRINTS["Cursor AI"])[k] = << 2 >>
  /\ "Cursor AI" \in DOMAIN allPlatformScores =>
       allPlatformScores["Cursor AI"] <= 4
  /\ \A r \in Results :
       /\ r.platform # "Cursor AI"
       /\ \A p \in DOMAIN allPlatformSignalsMap :
            (/\ Len(allPlatformSignalsMap[p]) = 1
             /\ allPlatformSignalsMap[p][1].confidence = "low") => r.platform # p
       /\ r.bucket = "platform-assisted" =>
            ~(Len(r.platformSignals) = 1 /\ r.platformSignals[1].confidence = "low")

C28_Witness ==
  \E r \in Results :
    /\ r.error = null
    /\ r.allPlatformScores["Cursor AI"] = 4
    /\ \A p \in DOMAIN r.allPlatformScores : r.allPlatformScores[p] <= 4
    /\ bestPlatform = "Cursor AI"
    /\ r.platform = null /\ r.bucket # "platform-assisted"

AiCategories ==
  { "over_commenter", "shadcn_ui", "tailwind_stack", "vite_build", "lucide_icons",
    "inter_font", "placeholder_links", "generic_naming", "prototype_hosting",
    "hosting_platform", "ai_generator_meta" }

OfCategory(signals, c) == SelectSeq(signals, LAMBDA s : s.category = c)

\* the sum of the signals' weights, with no cap
RECURSIVE PlainSum(_)
PlainSum(signals) ==
  IF signals = <<>> THEN 0
  ELSE PlainSum(Front(signals)) + StatedWeight(Last(signals).confidence)

\* C29: the AI signal list holds at most one signal per category, except
\* hosting_platform with at most two, both low; so the cap of 15 per
\* category never lowers the AI score, which is the plain sum of the
\* weights and at most 67.
C29_AiScoreIsPlainSum ==
  /\ \A i \in 1..Len(heurSignals) : heurSignals[i].category \in AiCategories
  /\ \A c \in AiCategories :
       /\ Len(OfCategory(heurSignals, c)) <= (IF c = "hosting_platform" THEN 2 ELSE 1)
       /\ PlainSum(OfCategory(heurSignals, c)) <= CATEGORY_CAP
  /\ \A i \in 1..Len(heurSignals) :
       heurSignals[i].category = "hosting_platform" => heurSignals[i].confidence = "low"
  /\ heurScore = PlainSum(heurSignals)
  /\ heurScore <= 67

C29_Witness ==
  /\ heurInput.run
  /\ heurScore = 67
  /\ Len(heurSignals) = 10

\* the label of a score s against a threshold T
LabelOf(s, T) ==
  CASE s >= 3 * T -> "high"
    [] 2 * s >= 3 * T /\ s < 3 * T -> "medium"
    [] s >= T /\ 2 * s < 3 * T -> "low"
    [] OTHER -> "none"

\* C30: in every result bucketConfidence is none exactly when the bucket is
\* unknown or no-ai-signals; a platform-assisted or ai-assisted result
\* carries low, medium or high, the label of the winning score against its
\* own threshold, 5 for a platform and 10 for AI.
C30_ConfidenceMatchesBucket ==
  \A r \in Results :
    /\ r.bucketConfidence = "none" <=> r.bucket \in {"unknown", "no-ai-signals"}
    /\ r.bucket = "platform-assisted" =>
         /\ r.bucketConfidence = LabelOf(r.platformScore, 5)
         /\ r.bucketConfidence \in {"low", "medium", "high"}
    /\ r.bucket = "ai-assisted" =>
         /\ r.bucketConfidence = LabelOf(r.aiScore, 10)
         /\ r.bucketConfidence \in {"low", "medium", "high"}

C30_Witness ==
  \E r \in Results :
    /\ r.bucket = "platform-assisted" /\ r.platformScore = 15
    /\ r.bucketConfidence = "high" /\ r.aiScore >= 10

\* C23: every call of detectUrl whose fetches settle returns exactly one
\* result, and never more than one, whatever the input and the outcome of
\* the fetches.
C23_EveryCallReturns ==
  /\ [](Len(returned) <= 1)
  /\ Called ~> (pc = "done" /\ Len(returned) = 1)

Without(r, fields) == [k \in DOMAIN r \ fields |-> r[k]]

Settled(i) == i \in 1..Len(results) /\ ~IsPending(results[i])

\* what detectUrl returns for row i's URL on its own, given what row i's
\* fetches delivered
Alone(i) ==
  LET u      == urlOf(batchRows[i])
      finalU == IF fetched[i].response THEN fetched[i].finalUrl ELSE normalizeUrl(u)
  IN  IF u = <<>> THEN emptyUrlResult
      ELSE IF fetched[i].error # "" THEN failureResult(u, finalU, fetched[i].error)
      ELSE detection(u, finalU, fetched[i].headers, fetched[i].html, fetched[i].bundle)

\* C21: in a batch the rows' detections run concurrently, and for every
\* interleaving of their fetches results[i] is the detection of row i's URL
\* with originalRow = row i, equal to what detecting that URL alone returns;
\* a failure or an empty URL in one row changes no other row's result and
\* does not fail the batch.
C21_RowsIndependent ==
  /\ Len(results) = Len(batchRows)
  /\ \A i \in 1..Len(results) :
       Settled(i) =>
         /\ results[i].originalRow = batchRows[i]
         /\ Without(results[i], {"originalRow"}) = Alone(i)
         /\ det[i].pc = "done"
  /\ batchStatus \in {0, 200}
  /\ batchStatus = 200 => \A i \in 1..Len(results) : Settled(i)

C21_Witness ==
  /\ Len(batchRows) = 2
  /\ Settled(1) /\ results[1].error = "The operation was aborted"
  /\ Settled(2) /\ results[2].error = null /\ results[2].bucket = "platform-assisted"
  /\ results[2].originalRow = batchRows[2]
  /\ batchStatus = 200

\* what a detection fetched: final URL, headers, HTML, bundle, failure
Artifacts(i) == fetched[i]

C27_FanOutCapped ==
  /\ started <= 50 /\ inFlight <= started
  /\ requestRows > 50 => (answer = 413 /\ started = 0 /\ inFlight = 0)
  /\ answer = 413 => requestRows > 50
  /\ (requestRows > 0 /\ requestRows <= 50) => started = requestRows
  /\ \A i \in 1..Len(chunks) : chunks[i] >= 1 /\ chunks[i] <= 50
  /\ chunks # <<>> => requestRows \in {0, Head(chunks)}

C27_Witness ==
  /\ requestRows = 51 /\ answer = 413 /\ started = 0 /\ inFlight = 0

C27_WitnessChunks ==
  /\ allRows = 101 /\ Len(chunks) = 3 /\ requestRows = 50 /\ inFlight = 50
=============================================================================
